---- MODULE Spec2Model ----
(***************************************************************************)
(* A model of the file server of tages_images_project.                     *)
(*                                                                         *)
(*   - the admission layer: middleware.ConcurrencyLimiter, a gRPC unary    *)
(*     interceptor with two buffered channels used as semaphores and a     *)
(*     statistics block guarded by a sync.RWMutex;                         *)
(*   - the storage manager: file.Repository, a metadata cache guarded by   *)
(*     a sync.RWMutex over files kept on disk under their MD5 sum.         *)
(*                                                                         *)
(* Requests of the admission layer are anonymous goroutines: the state     *)
(* keeps a bag of them, one element per goroutine, each a record of the    *)
(* goroutine's position and locals.  Worker threads of the storage manager *)
(* are identified (Threads), because the claims about it speak of the      *)
(* values each call returns.                                               *)
(***************************************************************************)
EXTENDS Integers, Sequences, FiniteSets, Bags, TLC

(***************************************************************************)
(* Program constants.                                                      *)
(***************************************************************************)
\* cap(uploadSemaphore): make(chan struct{}, 10)
UploadLimit == 10
\* cap(listSemaphore): make(chan struct{}, 100)
ListLimit == 100

(***************************************************************************)
(* Bounds of the model.                                                    *)
(***************************************************************************)
\* admissions (and attempts of one burst) of the heavy class of a workload
MaxUploadCalls == 11
MaxListCalls == 101
\* admissions of the other gated class of a mixed workload
MinorCalls == 1
\* goroutines that are at once in the interceptor's own code (between its
\* entry and the wrapped handler, or between the handler's return and the
\* interceptor's return) in the workload of racing uploads
MaxRacing == 2
\* ungated requests in flight at once
MaxOther == 1
\* requests in flight at once whose caller has cancelled
MaxCancelled == 1

Min(a, b) == IF a < b THEN a ELSE b

(***************************************************************************)
(* gRPC full method names (info.FullMethod) the interceptor can see: the   *)
(* three unary methods of FileService, one method of another service, and  *)
(* the other operations of the controller and of the repository under the  *)
(* names they have there.                                                  *)
(***************************************************************************)
UploadMethod == "/FileService/UploadFile"
GetMethod == "/FileService/GetFile"
ListMethod == "/FileService/ListFiles"
OtherMethod == "/Health/Check"
InfoMethod == "/FileService/GetFileInfo"
DeleteMethod == "/FileService/DeleteFile"
StatsMethod == "/FileService/GetStats"
Methods == {UploadMethod, GetMethod, ListMethod, OtherMethod}
Operations == Methods \cup {InfoMethod, DeleteMethod, StatsMethod}

\* strings.Contains
Contains(s, sub) ==
    \E i \in 1..(Len(s) - Len(sub) + 1) : SubSeq(s, i, i + Len(sub) - 1) = sub

VARIABLES
    uploadSemaphore,  \* len(cl.uploadSemaphore)
    listSemaphore,    \* len(cl.listSemaphore)
    stats,            \* cl.stats: uploadActive, listActive, totalUploads, totalLists
    statsLocked,      \* cl.stats.mutex is write-locked
    reqs,             \* bag of the requests inside the interceptor
    burst,            \* per pool: the attempts made since construction while
                      \* no holder of the pool has released and no attempt was
                      \* made by a cancelled caller, and in ever the admissions
                      \* made since construction
    workload,         \* what the clients will ask for: the methods they call,
                      \* per pool the admissions, and the bounds on the schedule
    files,            \* r.files: the metadata cache, fileID -> FileInfo
    disk,             \* the regular files of r.storagePath, name -> content
    mutex,            \* r.mutex: w the goroutine holding the write lock ("" when
                      \* none), r the number of read locks held
    th,               \* per goroutine calling the repository: position and locals
    clock,            \* the readings of time.Now() so far
    saved,            \* per fileID: the payloads of the first and of the latest
                      \* successful SaveFile since the last DeleteFile of it
    world,            \* the filenames and payloads the clients use
    opsLeft           \* the calls the clients will still make

limiterVars == <<uploadSemaphore, listSemaphore, stats, statsLocked, reqs, burst, workload>>
repoVars == <<files, disk, mutex, th, clock, saved, world, opsLeft>>
vars == <<uploadSemaphore, listSemaphore, stats, statsLocked, reqs, burst, workload,
          files, disk, mutex, th, clock, saved, world, opsLeft>>

Pools == {"upload", "list"}

(***************************************************************************)
(* The class the specification gives an operation, by its identity.        *)
(***************************************************************************)
Class(m) ==
    CASE m \in {UploadMethod, GetMethod} -> "upload"
      [] m = ListMethod -> "list"
      [] OTHER -> "none"

Limit(p) == IF p = "upload" THEN UploadLimit ELSE ListLimit
PoolLen(p) == IF p = "upload" THEN uploadSemaphore ELSE listSemaphore

(***************************************************************************)
(* A request: m the method, pc the goroutine's position, done whether      *)
(* ctx.Done() is closed, res the value the interceptor will return; adm and *)
(* full record what happened at the select: whether the request was        *)
(* admitted, and whether the pool of its class was full at that moment.    *)
(***************************************************************************)
Req(m, pc, done, adm, full, res) ==
    [m |-> m, pc |-> pc, done |-> done, adm |-> adm, full |-> full, res |-> res]

At(r, pc) == [r EXCEPT !.pc = pc]

Move(r, r2) == (reqs (-) SetToBag({r})) (+) SetToBag({r2})

InFlight == BagToSet(reqs)

Count(S) ==
    LET RECURSIVE Sum(_)
        Sum(T) == IF T = {} THEN 0
                  ELSE LET x == CHOOSE y \in T : TRUE
                       IN CopiesIn(x, reqs) + Sum(T \ {x})
    IN Sum(S)

\* positions between the send on the semaphore and the deferred receive
HolderPcs == {"inc_lock", "inc_active", "inc_total", "inc_unlock", "body", "release"}
\* positions before the request is counted in the total counter
UncountedPcs == {"start", "inc_lock", "inc_active", "inc_total"}

Holders(p) == {r \in InFlight : Class(r.m) = p /\ r.adm /\ r.pc \in HolderPcs}
Transit == {r \in InFlight : r.pc # "body"}

Total(p) == IF p = "upload" THEN stats.totalUploads ELSE stats.totalLists

(***************************************************************************)
(* The storage manager's data.                                             *)
(*                                                                         *)
(* A payload ([]byte) is a record: size is len(data) and bytes names the   *)
(* content among the payloads of that size.  A file on disk holds a        *)
(* payload; a file that was opened with O_TRUNC and not yet written holds  *)
(* the empty payload.                                                      *)
(***************************************************************************)
\* const maxFileSize = 10 * 1024 * 1024
maxFileSize == 10 * 1024 * 1024

Payload(size, bytes) == [size |-> size, bytes |-> bytes]
NoData == Payload(0, "")

\* md5.Sum(data): a digest is a function of the content and nothing else, and
\* two different contents can have the same digest: "X1" and "X2" stand for a
\* pair of colliding inputs.  The model keeps the first two bytes of a digest.
md5Sum(data) ==
    CASE data.bytes = "" -> <<212, 29>>
      [] data.bytes = "A" -> <<127, 197>>
      [] data.bytes = "B" -> <<157, 94>>
      [] data.bytes \in {"X1", "X2"} -> <<121, 5>>
      [] data.bytes = "M" -> <<11, 160>>
      [] OTHER -> <<238, 63>>

\* hex.EncodeToString
HexDigit(n) == SubSeq("0123456789abcdef", n + 1, n + 1)
EncodeToString(h) ==
    LET RECURSIVE Enc(_)
        Enc(b) == IF b = <<>> THEN ""
                  ELSE HexDigit(Head(b) \div 16) \o HexDigit(Head(b) % 16) \o Enc(Tail(b))
    IN Enc(h)

\* strings.TrimSpace
TrimSpace(str) ==
    LET IsSpace(c) == c \in {" ", "\t", "\n", "\r"}
        RECURSIVE Left(_)
        Left(x) == IF Len(x) > 0 /\ IsSpace(SubSeq(x, 1, 1))
                   THEN Left(SubSeq(x, 2, Len(x))) ELSE x
        RECURSIVE Right(_)
        Right(x) == IF Len(x) > 0 /\ IsSpace(SubSeq(x, Len(x), Len(x)))
                    THEN Right(SubSeq(x, 1, Len(x) - 1)) ELSE x
    IN Right(Left(str))

\* model.FileInfo
FileInfo(id, filename, created, updated, size) ==
    [ID |-> id, Filename |-> filename, CreatedAt |-> created, UpdatedAt |-> updated,
     Size |-> size]
NoInfo == FileInfo("", "", 0, 0, 0)

\* an entry of the storage directory: a regular file with its content and its
\* modification time (a reading of the clock), or a sub-directory
RegularFile(data, mtime) == [dir |-> FALSE, data |-> data, mtime |-> mtime]
Directory == [dir |-> TRUE, data |-> NoData, mtime |-> 0]

\* map and directory updates
Put(f, k, v) == [x \in DOMAIN f \cup {k} |-> IF x = k THEN v ELSE f[x]]
Drop(f, k) == [x \in DOMAIN f \ {k} |-> f[x]]
Empty == <<>>

\* the goroutines that call the repository
Threads == {"t1", "t2"}

\* the calls one client makes in a run
MaxOps == 3

(***************************************************************************)
(* Worlds: the filenames and the payloads the clients use in a run.        *)
(***************************************************************************)
\* A world also says which goroutines make calls and which methods they call,
\* what the storage directory holds when the server starts (disk0), which
\* system calls can fail (faults), whether files are removed behind the
\* server's back (oob) and whether the server can crash and be restarted.
World(names, payloads) ==
    [names |-> names, payloads |-> payloads, threads |-> {"t1"},
     ops |-> {"SaveFile", "GetFile", "DeleteFile"}, disk0 |-> Empty, faults |-> {},
     oob |-> FALSE, crash |-> FALSE, held |-> 0]
NoWorld == World({}, {})
Worlds ==
    { World({"a.txt", "b.txt"}, {Payload(1, "A"), Payload(1, "B")}),
      World({"a.txt", "b.txt"}, {Payload(128, "X1"), Payload(128, "X2")}),
      World({"a.txt", "", "  "},
            {NoData, Payload(1, "A"), Payload(maxFileSize, "M"),
             Payload(maxFileSize + 1, "L")}) }

NoCall == [op |-> "", filename |-> "", data |-> NoData, fileID |-> "", err |-> "",
           outID |-> "", existed |-> FALSE]
NoPre == [files |-> Empty, disk |-> Empty]

\* the counters of cl.stats, all zero
NoStats == [uploadActive |-> 0, listActive |-> 0, totalUploads |-> 0, totalLists |-> 0]

\* a goroutine outside any call of the repository
Idle ==
    [pc |-> "idle", op |-> "", filename |-> "", data |-> NoData, fileID |-> "",
     fileInfo |-> NoInfo, exists |-> FALSE, err |-> "", outID |-> "", outData |-> NoData,
     outInfo |-> NoInfo, outCount |-> 0, outTotal |-> 0, outList |-> {}, skipped |-> {},
     rpc |-> "", ctxDone |-> FALSE, slot |-> "", body |-> FALSE, cerr |-> "",
     statsHeld |-> FALSE, seen |-> NoStats, seenUpdating |-> 0,
     status |-> "", pre |-> NoPre, last |-> NoCall]

(***************************************************************************)
(* Workloads.  The test script of the repository issues a burst of         *)
(* downloads and then a burst of list requests.  A workload names the      *)
(* methods the clients call, the admissions they ask of each pool, the     *)
(* ungated requests and the cancelled requests in flight at once, and      *)
(* transit: how many goroutines are at once in the interceptor's own code, *)
(* and hold: the classes whose handlers do not return during the run (the  *)
(* handlers sleep before they do their work).                              *)
(* Requests overlap inside the wrapped handler in every workload; in the   *)
(* workload of racing uploads they also overlap in the interceptor's code, *)
(* in the others they pass it one at a time.                               *)
(***************************************************************************)
Workload(methods, upload, list, other, transit, cancelled, hold) ==
    [methods |-> methods, calls |-> [upload |-> upload, list |-> list],
     other |-> other, transit |-> transit, cancelled |-> cancelled, hold |-> hold]

Workloads ==
    { \* downloads, some of them cancelled
      Workload({GetMethod}, MaxUploadCalls, 0, 0, 1, MaxCancelled, {}),
      \* downloads next to list requests
      Workload({GetMethod, ListMethod}, MaxUploadCalls, MinorCalls, 0, 1, 0, {}),
      \* downloads next to ungated requests
      Workload({GetMethod, OtherMethod}, MaxUploadCalls, 0, MaxOther, 1, MaxCancelled, {}),
      \* racing uploads
      Workload({UploadMethod}, MaxUploadCalls, 0, 0, MaxRacing, 0, {}),
      \* list requests, some of them cancelled
      Workload({ListMethod}, 0, MaxListCalls, 0, 1, MaxCancelled, {}),
      \* both pools filled by requests that stay in their handlers, next to
      \* ungated requests
      Workload({GetMethod, ListMethod, OtherMethod}, UploadLimit, ListLimit, MaxOther, 1, 0,
               Pools) }

NoBurst == [open |-> FALSE, n |-> 0, adm |-> 0, rej |-> 0, ever |-> 0]

\* NewConcurrencyLimiter: both channels empty, the statistics zero
NewConcurrencyLimiter ==
    /\ uploadSemaphore = 0
    /\ listSemaphore = 0
    /\ stats = [uploadActive |-> 0, listActive |-> 0, totalUploads |-> 0, totalLists |-> 0]
    /\ statsLocked = FALSE
    /\ reqs = EmptyBag
    /\ burst = [p \in Pools |-> [open |-> TRUE, n |-> 0, adm |-> 0, rej |-> 0, ever |-> 0]]

\* NewRepo over an empty storage directory: nothing to load
NewRepo ==
    /\ files = Empty
    /\ disk = Empty
    /\ mutex = [w |-> "", r |-> 0]
    /\ th = [t \in Threads |-> Idle]
    /\ clock = 0
    /\ saved = Empty

\* the admission layer under its workloads, in front of an abstract handler
Init ==
    /\ NewConcurrencyLimiter
    /\ workload \in Workloads
    /\ NewRepo
    /\ world = NoWorld
    /\ opsLeft = 0

(***************************************************************************)
(* A client calls a method: grpc starts a goroutine that enters the        *)
(* interceptor.  The guards are the bounds of the model.                   *)
(***************************************************************************)
Call(m) ==
    /\ m \in workload.methods
    /\ Count(Transit) < workload.transit
    /\ IF Class(m) = "none"
       THEN Count({r \in InFlight : Class(r.m) = "none"}) < workload.other
       ELSE LET p == Class(m)
                waiting == Count({r \in InFlight : Class(r.m) = p /\ r.pc = "start"})
                uncounted == Count({r \in InFlight : Class(r.m) = p /\ r.adm
                                                     /\ r.pc \in UncountedPcs})
            IN /\ Total(p) + uncounted + waiting < workload.calls[p]
               /\ burst[p].open => burst[p].n + waiting < workload.calls[p]
    /\ reqs' = reqs (+) SetToBag({Req(m, "start", FALSE, FALSE, FALSE, "none")})
    /\ UNCHANGED <<uploadSemaphore, listSemaphore, stats, statsLocked, burst, workload, repoVars>>

\* the caller cancels the context of a request; the request reads ctx at the
\* select and again at the entry of the handler, so only a cancellation before
\* one of these reads is kept apart
Cancel(r) ==
    /\ r.pc \in {"start", "body"}
    /\ ~r.done
    /\ Count({q \in InFlight : q.done}) < workload.cancelled
    /\ reqs' = Move(r, [r EXCEPT !.done = TRUE])
    /\ UNCHANGED <<uploadSemaphore, listSemaphore, stats, statsLocked, burst, workload, repoVars>>

(***************************************************************************)
(* select { case sem <- struct{}{}: ...; case <-ctx.Done(): ...;           *)
(*          default: ... }: Go chooses among the cases that can proceed,   *)
(* one of them at random when several can, and the default case only when  *)
(* none can.                                                               *)
(***************************************************************************)
\* variants of the select with a slip in it, one for each claim that rests on it
\* the send is chosen though the channel is full
SelectCasesUnbounded(canSend, ctxDone) ==
    IF ctxDone THEN {"send", "done"} ELSE {"send"}

\* the default case is chosen though the send can proceed
SelectCasesShedding(canSend, ctxDone) ==
    IF ctxDone THEN {"done"}
    ELSE IF canSend THEN {"send", "default"} ELSE {"default"}

\* no default case: the select waits for a slot or for the cancellation
SelectCasesBlocking(canSend, ctxDone) ==
    {c \in {"send", "done"} : (c = "send" /\ canSend) \/ (c = "done" /\ ctxDone)}

\* no case for ctx.Done()
SelectCasesDeaf(canSend, ctxDone) ==
    IF canSend THEN {"send"} ELSE {"default"}

\* the send is never chosen
SelectCasesClosed(canSend, ctxDone) ==
    IF ctxDone THEN {"done"} ELSE {"default"}

SelectCases(canSend, ctxDone) ==
    IF canSend \/ ctxDone
    THEN {c \in {"send", "done"} : (c = "send" /\ canSend) \/ (c = "done" /\ ctxDone)}
    ELSE {"default"}

\* what the request is after the select has chosen case c
Selected(r, c) ==
    LET full == Class(r.m) \in Pools /\ PoolLen(Class(r.m)) = Limit(Class(r.m))
    IN CASE c = "send" -> [r EXCEPT !.pc = "inc_lock", !.adm = TRUE, !.full = full]
         [] c = "done" -> [r EXCEPT !.pc = "ret", !.full = full, !.res = "Cancelled"]
         [] OTHER -> [r EXCEPT !.pc = "ret", !.full = full, !.res = "TooMany"]

\* the monitor of the burst of pool p, after r's select chose case c
Attempted(r, c, p) ==
    LET b == burst[p]
        ever == b.ever + (IF c = "send" THEN 1 ELSE 0)
    IN IF ~b.open THEN [burst EXCEPT ![p].ever = ever]
       ELSE IF r.done THEN [burst EXCEPT ![p] = [NoBurst EXCEPT !.ever = ever]]
       ELSE [burst EXCEPT ![p] = [open |-> TRUE, n |-> b.n + 1,
                                  adm |-> b.adm + (IF c = "send" THEN 1 ELSE 0),
                                  rej |-> b.rej + (IF c = "send" THEN 0 ELSE 1),
                                  ever |-> ever]]

handleUploadDownload(r) ==
    \E c \in SelectCases(uploadSemaphore < UploadLimit, r.done) :
        /\ uploadSemaphore' = IF c = "send" THEN uploadSemaphore + 1 ELSE uploadSemaphore
        /\ reqs' = Move(r, Selected(r, c))
        /\ burst' = Attempted(r, c, "upload")
        /\ UNCHANGED <<listSemaphore, stats, statsLocked, workload, repoVars>>

handleList(r) ==
    \E c \in SelectCases(listSemaphore < ListLimit, r.done) :
        /\ listSemaphore' = IF c = "send" THEN listSemaphore + 1 ELSE listSemaphore
        /\ reqs' = Move(r, Selected(r, c))
        /\ burst' = Attempted(r, c, "list")
        /\ UNCHANGED <<uploadSemaphore, stats, statsLocked, workload, repoVars>>

\* default: return handler(ctx, req)
passThrough(r) ==
    /\ reqs' = Move(r, At(r, "body"))
    /\ UNCHANGED <<uploadSemaphore, listSemaphore, stats, statsLocked, burst, workload, repoVars>>

\* a switch whose default case gates like the list requests
RouteGated(m) ==
    IF Contains(m, "UploadFile") \/ Contains(m, "GetFile") THEN "handleUploadDownload"
    ELSE "handleList"

\* the switch of the interceptor, on the method's name
Route(m) ==
    CASE Contains(m, "UploadFile") \/ Contains(m, "GetFile") -> "handleUploadDownload"
      [] Contains(m, "ListFiles") -> "handleList"
      [] OTHER -> "handler"

UnaryServerInterceptor(r) ==
    /\ r.pc = "start"
    /\ CASE Route(r.m) = "handleUploadDownload" -> handleUploadDownload(r)
         [] Route(r.m) = "handleList" -> handleList(r)
         [] OTHER -> passThrough(r)

(***************************************************************************)
(* updateUploadStats(delta) and updateListStats(delta): Lock; active +=    *)
(* delta; if delta > 0 { total++ }; Unlock (deferred).  One step each.     *)
(***************************************************************************)
\* a Lock that does not wait for the holder of the mutex
CanLockStatsAlways == TRUE

\* cl.stats.mutex.Lock() can proceed
CanLockStats == ~statsLocked

\* a release that leaves the active counter as it is
DeltaNoneOnRelease(pc) == IF pc = "inc_active" THEN 1 ELSE 0

\* the argument of the call: updateUploadStats(1) after the send,
\* updateUploadStats(-1) in the deferred function
Delta(pc) == IF pc = "inc_active" THEN 1 ELSE -1

updateStats(r, active, total) ==
    \/ /\ r.pc \in {"inc_lock", "dec_lock"}
       /\ CanLockStats
       /\ statsLocked' = TRUE
       /\ reqs' = Move(r, At(r, IF r.pc = "inc_lock" THEN "inc_active" ELSE "dec_active"))
       /\ UNCHANGED stats
    \/ /\ r.pc \in {"inc_active", "dec_active"}
       /\ LET delta == Delta(r.pc)
          IN /\ stats' = [stats EXCEPT ![active] = @ + delta]
             /\ reqs' = Move(r, At(r, IF delta > 0 THEN "inc_total" ELSE "dec_unlock"))
       /\ UNCHANGED statsLocked
    \/ /\ r.pc = "inc_total"
       /\ stats' = [stats EXCEPT ![total] = @ + 1]
       /\ reqs' = Move(r, At(r, "inc_unlock"))
       /\ UNCHANGED statsLocked
    \/ /\ r.pc \in {"inc_unlock", "dec_unlock"}
       /\ statsLocked' = FALSE
       /\ reqs' = Move(r, At(r, IF r.pc = "inc_unlock" THEN "body" ELSE "ret"))
       /\ UNCHANGED stats

updateUploadStats(r) ==
    /\ Route(r.m) = "handleUploadDownload"
    /\ updateStats(r, "uploadActive", "totalUploads")
    /\ UNCHANGED <<uploadSemaphore, listSemaphore, burst, workload, repoVars>>

updateListStats(r) ==
    /\ Route(r.m) = "handleList"
    /\ updateStats(r, "listActive", "totalLists")
    /\ UNCHANGED <<uploadSemaphore, listSemaphore, burst, workload, repoVars>>

(***************************************************************************)
(* handler(ctx, req): what the wrapped handler can return.  The handlers   *)
(* of FileService validate the request, then the controller reads ctx at   *)
(* its entry and returns ctx.Err() when it is done, and the result of the  *)
(* repository otherwise; ListFiles validates nothing and its repository    *)
(* call never fails.                                                       *)
(***************************************************************************)
HandlerResults(m, done) ==
    CASE m = ListMethod -> IF done THEN {"Cancelled"} ELSE {"OK"}
      [] OTHER -> IF done THEN {"Cancelled", "Error"} ELSE {"OK", "Error"}

\* the handler returns: time.Sleep(...); return handler(ctx, req)
handlerReturns(r) ==
    /\ r.pc = "body"
    /\ Class(r.m) \notin workload.hold
    /\ Count(Transit) < workload.transit
    /\ \E res \in HandlerResults(r.m, r.done) :
           reqs' = Move(r, [r EXCEPT !.pc = IF r.adm THEN "release" ELSE "ret", !.res = res])
    /\ UNCHANGED <<uploadSemaphore, listSemaphore, stats, statsLocked, burst, workload, repoVars>>

(***************************************************************************)
(* The deferred function of a handler: the receive from the semaphore,     *)
(* which blocks while the channel is empty; the decrement of the active    *)
(* counter follows as steps of updateUploadStats / updateListStats.        *)
(***************************************************************************)
\* a release on the successful path only, not deferred
releaseUploadOnSuccess(r) ==
    /\ r.pc = "release"
    /\ Route(r.m) = "handleUploadDownload"
    /\ uploadSemaphore > 0
    /\ uploadSemaphore' = IF r.res = "OK" THEN uploadSemaphore - 1 ELSE uploadSemaphore
    /\ reqs' = Move(r, At(r, "dec_lock"))
    /\ burst' = [burst EXCEPT !["upload"] = [NoBurst EXCEPT !.ever = burst["upload"].ever]]
    /\ UNCHANGED <<listSemaphore, stats, statsLocked, workload, repoVars>>

releaseUpload(r) ==
    /\ r.pc = "release"
    /\ Route(r.m) = "handleUploadDownload"
    /\ uploadSemaphore > 0
    /\ uploadSemaphore' = uploadSemaphore - 1
    /\ reqs' = Move(r, At(r, "dec_lock"))
    /\ burst' = [burst EXCEPT !["upload"] = [NoBurst EXCEPT !.ever = burst["upload"].ever]]
    /\ UNCHANGED <<listSemaphore, stats, statsLocked, workload, repoVars>>

releaseList(r) ==
    /\ r.pc = "release"
    /\ Route(r.m) = "handleList"
    /\ listSemaphore > 0
    /\ listSemaphore' = listSemaphore - 1
    /\ reqs' = Move(r, At(r, "dec_lock"))
    /\ burst' = [burst EXCEPT !["list"] = [NoBurst EXCEPT !.ever = burst["list"].ever]]
    /\ UNCHANGED <<uploadSemaphore, stats, statsLocked, workload, repoVars>>

\* the interceptor returns res to grpc, which answers the client
Return(r) ==
    /\ r.pc = "ret"
    /\ reqs' = reqs (-) SetToBag({r})
    /\ UNCHANGED <<uploadSemaphore, listSemaphore, stats, statsLocked, burst, workload, repoVars>>

Next ==
    \/ \E m \in Methods : Call(m)
    \/ \E r \in InFlight : Cancel(r)
    \/ \E r \in InFlight : UnaryServerInterceptor(r)
    \/ \E r \in InFlight : updateUploadStats(r)
    \/ \E r \in InFlight : updateListStats(r)
    \/ \E r \in InFlight : handlerReturns(r)
    \/ \E r \in InFlight : releaseUpload(r)
    \/ \E r \in InFlight : releaseList(r)
    \/ \E r \in InFlight : Return(r)

Spec == Init /\ [][Next]_vars

(***************************************************************************)
(* The interceptor in front of all the operations of the store: the        *)
(* transfers and the listing, and the metadata lookup, the deletion and    *)
(* the statistics.                                                         *)
(***************************************************************************)
\* the pool whose handler the switch of the interceptor hands a method to
Gate(m) ==
    CASE Route(m) = "handleUploadDownload" -> "upload"
      [] Route(m) = "handleList" -> "list"
      [] OTHER -> "none"

ClassWorkloads ==
    { Workload({UploadMethod, GetMethod, ListMethod}, MaxRacing, MinorCalls, 0, MaxRacing,
               MaxCancelled, {}),
      Workload({GetMethod, InfoMethod, DeleteMethod, StatsMethod}, MaxRacing, 0, MaxOther,
               MaxRacing, MaxCancelled, {}) }

InitClass ==
    /\ NewConcurrencyLimiter
    /\ workload \in ClassWorkloads
    /\ NewRepo
    /\ world = NoWorld
    /\ opsLeft = 0

\* a client calls an operation; the guards are the bounds of the model,
\* which count a request in the pool the interceptor gates it by
CallOperation(m) ==
    /\ m \in workload.methods
    /\ Count(Transit) < workload.transit
    /\ IF Gate(m) = "none"
       THEN Count({r \in InFlight : Gate(r.m) = "none"}) < workload.other
       ELSE LET p == Gate(m)
                waiting == Count({r \in InFlight : Gate(r.m) = p /\ r.pc = "start"})
                uncounted == Count({r \in InFlight : Gate(r.m) = p /\ r.adm
                                                     /\ r.pc \in UncountedPcs})
            IN /\ Total(p) + uncounted + waiting < workload.calls[p]
               /\ burst[p].open => burst[p].n + waiting < workload.calls[p]
    /\ reqs' = reqs (+) SetToBag({Req(m, "start", FALSE, FALSE, FALSE, "none")})
    /\ UNCHANGED <<uploadSemaphore, listSemaphore, stats, statsLocked, burst, workload, repoVars>>

NextClass ==
    \/ \E m \in Operations : CallOperation(m)
    \/ \E r \in InFlight : Cancel(r)
    \/ \E r \in InFlight : UnaryServerInterceptor(r)
    \/ \E r \in InFlight : updateUploadStats(r)
    \/ \E r \in InFlight : updateListStats(r)
    \/ \E r \in InFlight : handlerReturns(r)
    \/ \E r \in InFlight : releaseUpload(r)
    \/ \E r \in InFlight : releaseList(r)
    \/ \E r \in InFlight : Return(r)

SpecClass == InitClass /\ [][NextClass]_vars

(***************************************************************************)
(* The interceptor next to the goroutine of main that logs the statistics  *)
(* on every tick of its ticker.                                            *)
(***************************************************************************)
\* the positions inside updateUploadStats / updateListStats, after Lock
StatsSections == {"inc_active", "inc_total", "inc_unlock", "dec_active", "dec_unlock"}

\* the requests that are inside updateUploadStats / updateListStats
Updating == {r \in InFlight : r.pc \in StatsSections}

\* the goroutine of the ticker
Ticker == "t1"

\* GetStatsString: GetStats takes the read lock, which waits for the
\* writer, and returns the four counters.  In seenUpdating, the updates
\* that were under way at that moment.
GetStatsString ==
    /\ ~statsLocked
    /\ stats # th[Ticker].seen
    /\ th' = [th EXCEPT ![Ticker].seen = stats, ![Ticker].seenUpdating = Count(Updating)]
    /\ UNCHANGED <<files, disk, mutex, clock, saved, world, opsLeft, limiterVars>>

StatsWorkloads ==
    { \* racing uploads and list requests
      Workload({UploadMethod, ListMethod}, MaxRacing + 1, MinorCalls, 0, MaxRacing, 0, {}),
      \* downloads, some of them cancelled
      Workload({GetMethod}, MaxRacing + 1, 0, 0, MaxRacing, MaxCancelled, {}) }

InitStats ==
    /\ NewConcurrencyLimiter
    /\ workload \in StatsWorkloads
    /\ NewRepo
    /\ world = NoWorld
    /\ opsLeft = 0

NextStats ==
    \/ Next
    \/ GetStatsString

SpecStats == InitStats /\ [][NextStats]_vars

(***************************************************************************)
(* The second copy of the middleware in the repository: the same           *)
(* interceptor without the sleeps, whose handleList sends to and receives  *)
(* from cl.uploadSemaphore.                                                *)
(***************************************************************************)
handleList2(r) ==
    \E c \in SelectCases(uploadSemaphore < UploadLimit, r.done) :
        /\ uploadSemaphore' = IF c = "send" THEN uploadSemaphore + 1 ELSE uploadSemaphore
        /\ reqs' = Move(r, Selected(r, c))
        /\ burst' = Attempted(r, c, "list")
        /\ UNCHANGED <<listSemaphore, stats, statsLocked, workload, repoVars>>

UnaryServerInterceptor2(r) ==
    /\ r.pc = "start"
    /\ CASE Route(r.m) = "handleUploadDownload" -> handleUploadDownload(r)
         [] Route(r.m) = "handleList" -> handleList2(r)
         [] OTHER -> passThrough(r)

releaseList2(r) ==
    /\ r.pc = "release"
    /\ Route(r.m) = "handleList"
    /\ uploadSemaphore > 0
    /\ uploadSemaphore' = uploadSemaphore - 1
    /\ reqs' = Move(r, At(r, "dec_lock"))
    /\ burst' = [burst EXCEPT !["list"] = [NoBurst EXCEPT !.ever = burst["list"].ever]]
    /\ UNCHANGED <<listSemaphore, stats, statsLocked, workload, repoVars>>

Next2 ==
    \/ \E m \in Methods : Call(m)
    \/ \E r \in InFlight : Cancel(r)
    \/ \E r \in InFlight : UnaryServerInterceptor2(r)
    \/ \E r \in InFlight : updateUploadStats(r)
    \/ \E r \in InFlight : updateListStats(r)
    \/ \E r \in InFlight : handlerReturns(r)
    \/ \E r \in InFlight : releaseUpload(r)
    \/ \E r \in InFlight : releaseList2(r)
    \/ \E r \in InFlight : Return(r)

SpecCopy2 == Init /\ [][Next2]_vars

(***************************************************************************)
(* The storage manager: file.Repository.                                   *)
(***************************************************************************)
\* a lock that a writer takes while readers hold it
CanLockAmongReaders == mutex.w = ""

\* sync.RWMutex
CanRLock == mutex.w = ""
CanLock == mutex.w = "" /\ mutex.r = 0

\* an RUnlock that is put off to the return of the method
RUnlockDeferred(m) == m

\* r.mutex.RUnlock()
RUnlock(m) == [m EXCEPT !.r = @ - 1]

\* the fileIDs a client can ask for: those of its payloads, and none
FileIDs ==
    {""} \cup {EncodeToString(md5Sum(d)) : d \in world.payloads} \cup DOMAIN world.disk0

\* what a call leaves behind for the next one
Summary(c) ==
    [op |-> c.op, filename |-> c.filename, data |-> c.data, fileID |-> c.fileID,
     err |-> c.err, outID |-> c.outID, existed |-> c.fileID \in DOMAIN c.pre.files]

\* a client calls op of the repository with these arguments
CallRepo(t, op, filename, data, fileID) ==
    /\ t \in world.threads
    /\ op \in world.ops
    /\ th[t].pc \in {"idle", "done"}
    /\ opsLeft > 0
    /\ opsLeft' = opsLeft - 1
    /\ th' = [th EXCEPT ![t] =
                 [Idle EXCEPT !.pc = op, !.op = op, !.filename = filename, !.data = data,
                              !.fileID = fileID,
                              !.pre = [files |-> files, disk |-> disk],
                              !.last = Summary(th[t])]]
    /\ saved' = IF op = "DeleteFile" /\ fileID \in DOMAIN saved
                THEN Drop(saved, fileID) ELSE saved
    /\ UNCHANGED <<files, disk, mutex, clock, world>>

Call_SaveFile(t) ==
    \E filename \in world.names, data \in world.payloads :
        CallRepo(t, "SaveFile", filename, data, "")

Call_GetFile(t) == \E fileID \in FileIDs : CallRepo(t, "GetFile", "", NoData, fileID)

Call_DeleteFile(t) == \E fileID \in FileIDs : CallRepo(t, "DeleteFile", "", NoData, fileID)

\* return from the call
Returns(c, err, outID, outInfo, outData) ==
    [c EXCEPT !.pc = "done", !.err = err, !.outID = outID, !.outInfo = outInfo,
              !.outData = outData]

Fails(c, err) == Returns(c, err, "", NoInfo, NoData)

(***************************************************************************)
(* The system calls on the storage directory and the errors they can end   *)
(* with: "" is success; ENOENT and EISDIR follow from what the directory   *)
(* holds; EIO stands for any other failure and is possible where the world *)
(* has the fault.                                                          *)
(***************************************************************************)
Fault(call) == IF call \in world.faults THEN {"EIO"} ELSE {}

\* the open of os.WriteFile, with O_CREATE|O_TRUNC
OpenFile(name) ==
    (IF name \in DOMAIN disk /\ disk[name].dir THEN {"EISDIR"} ELSE {""}) \cup Fault("write")

\* the write and the close of os.WriteFile
Write(name) == {""} \cup Fault("write")

\* os.ReadFile
ReadFile(name) ==
    (IF name \notin DOMAIN disk THEN {"ENOENT"}
     ELSE IF disk[name].dir THEN {"EISDIR"} ELSE {""}) \cup Fault("read")

\* os.Remove
Remove(name) == (IF name \notin DOMAIN disk THEN {"ENOENT"} ELSE {""}) \cup Fault("remove")

\* a test for a missing file that never holds
IsNotExistNever(e) == FALSE

\* a test for a missing file that takes another error for it
IsNotExistOther(e) == e = "EIO"

\* os.IsNotExist
IsNotExist(e) == e = "ENOENT"

\* an error of os.WriteFile that is ignored
WriteFailedNever(e) == FALSE

\* if err := os.WriteFile(...); err != nil
WriteFailed(e) == e # ""

\* an error of os.Remove that is ignored
DeleteFailedNever(e) == FALSE

\* if err := os.Remove(filePath); err != nil && !os.IsNotExist(err)
DeleteFailed(e) == e # "" /\ ~IsNotExist(e)

\* fmt.Errorf("<msg>: %w", err)
Errorf(msg, err) == msg \o ": " \o err

\* a validation that looks at the size before the filename
validateFileSizeFirst(filename, data) ==
    IF data.size > maxFileSize THEN "ErrFileTooLarge"
    ELSE IF TrimSpace(filename) = "" THEN "ErrInvalidFilename"
    ELSE IF data.size = 0 THEN "ErrFileIsEmpty"
    ELSE ""

\* validateFile: the filename, then the size, then the emptiness
validateFile(filename, data) ==
    IF TrimSpace(filename) = "" THEN "ErrInvalidFilename"
    ELSE IF data.size > maxFileSize THEN "ErrFileTooLarge"
    ELSE IF data.size = 0 THEN "ErrFileIsEmpty"
    ELSE ""

\* the successful SaveFile of data under fileID, in the history
Saved(fileID, data) ==
    IF fileID \in DOMAIN saved
    THEN [saved EXCEPT ![fileID].latest = data]
    ELSE Put(saved, fileID, [first |-> data, latest |-> data])

\* a lookup that finds nothing
ExistsNever(fileID) == FALSE

\* if _, exists := r.files[fileID]; exists
Exists(fileID) == fileID \in DOMAIN files

\* a lookup in the storage directory instead of the cache
LookupDisk(fileID) == [exists |-> fileID \in DOMAIN disk, fileInfo |-> NoInfo]

\* fileInfo, exists := r.files[fileID]
Lookup(fileID) ==
    [exists |-> fileID \in DOMAIN files,
     fileInfo |-> IF fileID \in DOMAIN files THEN files[fileID] ELSE NoInfo]

\* the aggregate GetStats computes over the cache: len(r.files) and the sum
\* of the sizes
GetStatsOf(f) ==
    LET RECURSIVE Sum(_)
        Sum(ids) == IF ids = {} THEN 0
                    ELSE LET id == CHOOSE k \in ids : TRUE
                         IN f[id].Size + Sum(ids \ {id})
    IN [count |-> Cardinality(DOMAIN f), total |-> Sum(DOMAIN f)]

\* the records ListFiles collects from the cache (in the order of the map's
\* iteration, which Go leaves open)
ListFilesOf(f) == {f[id] : id \in DOMAIN f}

\* what GetFileInfo finds in the cache
GetFileInfoOf(f, fileID) ==
    IF fileID = "" THEN [fileInfo |-> NoInfo, err |-> "ErrInvalidFileID"]
    ELSE IF fileID \in DOMAIN f THEN [fileInfo |-> f[fileID], err |-> ""]
    ELSE [fileInfo |-> NoInfo, err |-> "ErrFileNotFound"]

\* a key made of the file's name
FileIDOfName(filename, data) == filename

\* hash := md5.Sum(data); fileID := hex.EncodeToString(hash[:])
FileID(filename, data) == EncodeToString(md5Sum(data))

\* SaveFile(filename, data), one statement a step
SaveFile(t) ==
    LET c == th[t] IN
    \/ /\ c.pc = "SaveFile"
       /\ LET err == validateFile(c.filename, c.data)
          IN th' = [th EXCEPT ![t] =
                       IF err # "" THEN Fails(c, err)
                       ELSE [c EXCEPT !.pc = "save_rlock",
                                      !.fileID = FileID(c.filename, c.data)]]
       /\ UNCHANGED <<files, disk, mutex, clock, saved, world, opsLeft>>
    \/ /\ c.pc = "save_rlock"
       /\ CanRLock
       /\ mutex' = [mutex EXCEPT !.r = @ + 1]
       /\ th' = [th EXCEPT ![t].pc = "save_check"]
       /\ UNCHANGED <<files, disk, clock, saved, world, opsLeft>>
    \/ /\ c.pc = "save_check"
       /\ th' = [th EXCEPT ![t].exists = Exists(c.fileID), ![t].pc = "save_runlock"]
       /\ UNCHANGED <<files, disk, mutex, clock, saved, world, opsLeft>>
    \/ /\ c.pc = "save_runlock"
       /\ mutex' = RUnlock(mutex)
       /\ IF c.exists
          THEN /\ th' = [th EXCEPT ![t] = Returns(c, "", c.fileID, NoInfo, NoData)]
               /\ saved' = Saved(c.fileID, c.data)
          ELSE /\ th' = [th EXCEPT ![t].pc = "save_open"]
               /\ UNCHANGED saved
       /\ UNCHANGED <<files, disk, clock, world, opsLeft>>
    \/ \* os.WriteFile: open with O_CREATE|O_TRUNC ...
       /\ c.pc = "save_open"
       /\ \E e \in OpenFile(c.fileID) :
              /\ IF e = ""
                 THEN /\ disk' = Put(disk, c.fileID, RegularFile(NoData, clock + 1))
                      /\ clock' = clock + 1
                 ELSE UNCHANGED <<disk, clock>>
              /\ th' = [th EXCEPT ![t] =
                           IF WriteFailed(e) THEN Fails(c, Errorf("FAILED TO WRITE FILE", e))
                           ELSE At(c, "save_write")]
       /\ UNCHANGED <<files, mutex, saved, world, opsLeft>>
    \/ \* ... write and close; then now := time.Now() and the new FileInfo
       /\ c.pc = "save_write"
       /\ \E e \in Write(c.fileID) :
              /\ disk' = IF e = "" /\ c.fileID \in DOMAIN disk /\ ~disk[c.fileID].dir
                         THEN Put(disk, c.fileID, RegularFile(c.data, clock + 1))
                         ELSE disk \* the file stays as the open has left it
              /\ clock' = clock + 2
              /\ th' = [th EXCEPT ![t] =
                           IF WriteFailed(e) THEN Fails(c, Errorf("FAILED TO WRITE FILE", e))
                           ELSE [c EXCEPT !.pc = "save_lock",
                                          !.fileInfo = FileInfo(c.fileID, c.filename, clock + 2,
                                                                clock + 2, c.data.size)]]
       /\ UNCHANGED <<files, mutex, saved, world, opsLeft>>
    \/ /\ c.pc = "save_lock"
       /\ CanLock
       /\ mutex' = [mutex EXCEPT !.w = t]
       /\ th' = [th EXCEPT ![t].pc = "save_insert"]
       /\ UNCHANGED <<files, disk, clock, saved, world, opsLeft>>
    \/ /\ c.pc = "save_insert"
       /\ files' = Put(files, c.fileID, c.fileInfo)
       /\ th' = [th EXCEPT ![t].pc = "save_unlock"]
       /\ UNCHANGED <<disk, mutex, clock, saved, world, opsLeft>>
    \/ /\ c.pc = "save_unlock"
       /\ mutex' = [mutex EXCEPT !.w = ""]
       /\ th' = [th EXCEPT ![t] = Returns(c, "", c.fileID, NoInfo, NoData)]
       /\ saved' = Saved(c.fileID, c.data)
       /\ UNCHANGED <<files, disk, clock, world, opsLeft>>

\* GetFile(fileID)
GetFile(t) ==
    LET c == th[t] IN
    \/ /\ c.pc = "GetFile"
       /\ th' = [th EXCEPT ![t] = IF c.fileID = "" THEN Fails(c, "ErrInvalidFileID")
                                  ELSE At(c, "get_rlock")]
       /\ UNCHANGED <<files, disk, mutex, clock, saved, world, opsLeft>>
    \/ /\ c.pc = "get_rlock"
       /\ CanRLock
       /\ mutex' = [mutex EXCEPT !.r = @ + 1]
       /\ th' = [th EXCEPT ![t].pc = "get_lookup"]
       /\ UNCHANGED <<files, disk, clock, saved, world, opsLeft>>
    \/ /\ c.pc = "get_lookup"
       /\ th' = [th EXCEPT ![t].exists = Lookup(c.fileID).exists,
                           ![t].fileInfo = Lookup(c.fileID).fileInfo,
                           ![t].pc = "get_runlock"]
       /\ UNCHANGED <<files, disk, mutex, clock, saved, world, opsLeft>>
    \/ /\ c.pc = "get_runlock"
       /\ mutex' = RUnlock(mutex)
       /\ th' = [th EXCEPT ![t] = IF c.exists THEN At(c, "get_read")
                                  ELSE Fails(c, "ErrFileNotFound")]
       /\ UNCHANGED <<files, disk, clock, saved, world, opsLeft>>
    \/ \* os.ReadFile, and on os.IsNotExist the way to the eviction
       /\ c.pc = "get_read"
       /\ \E e \in ReadFile(c.fileID) :
              th' = [th EXCEPT ![t] =
                        IF e = "" THEN Returns(c, "", "", c.fileInfo, disk[c.fileID].data)
                        ELSE IF IsNotExist(e) THEN At(c, "get_evict_lock")
                        ELSE Fails(c, Errorf("FAILED TO READ FILE", e))]
       /\ UNCHANGED <<files, disk, mutex, clock, saved, world, opsLeft>>
    \/ /\ c.pc = "get_evict_lock"
       /\ CanLock
       /\ mutex' = [mutex EXCEPT !.w = t]
       /\ th' = [th EXCEPT ![t].pc = "get_evict"]
       /\ UNCHANGED <<files, disk, clock, saved, world, opsLeft>>
    \/ /\ c.pc = "get_evict"
       /\ files' = Drop(files, c.fileID)
       /\ th' = [th EXCEPT ![t].pc = "get_evict_unlock"]
       /\ UNCHANGED <<disk, mutex, clock, saved, world, opsLeft>>
    \/ /\ c.pc = "get_evict_unlock"
       /\ mutex' = [mutex EXCEPT !.w = ""]
       /\ th' = [th EXCEPT ![t] = Fails(c, "ErrFileNotFound")]
       /\ UNCHANGED <<files, disk, clock, saved, world, opsLeft>>

\* DeleteFile(fileID)
DeleteFile(t) ==
    LET c == th[t] IN
    \/ /\ c.pc = "DeleteFile"
       /\ th' = [th EXCEPT ![t] = IF c.fileID = "" THEN Fails(c, "ErrInvalidFileID")
                                  ELSE At(c, "del_remove")]
       /\ UNCHANGED <<files, disk, mutex, clock, saved, world, opsLeft>>
    \/ \* os.Remove; a file that does not exist is no error
       /\ c.pc = "del_remove"
       /\ \E e \in Remove(c.fileID) :
              /\ disk' = IF e = "" THEN Drop(disk, c.fileID) ELSE disk
              /\ th' = [th EXCEPT ![t] = IF DeleteFailed(e)
                                         THEN Fails(c, "ErrFailToDeleteFile")
                                         ELSE At(c, "del_lock")]
       /\ UNCHANGED <<files, mutex, clock, saved, world, opsLeft>>
    \/ /\ c.pc = "del_lock"
       /\ CanLock
       /\ mutex' = [mutex EXCEPT !.w = t]
       /\ th' = [th EXCEPT ![t].pc = "del_delete"]
       /\ UNCHANGED <<files, disk, clock, saved, world, opsLeft>>
    \/ /\ c.pc = "del_delete"
       /\ files' = Drop(files, c.fileID)
       /\ th' = [th EXCEPT ![t].pc = "del_unlock"]
       /\ UNCHANGED <<disk, mutex, clock, saved, world, opsLeft>>
    \/ /\ c.pc = "del_unlock"
       /\ mutex' = [mutex EXCEPT !.w = ""]
       /\ th' = [th EXCEPT ![t] = Fails(c, "")]
       /\ UNCHANGED <<files, disk, clock, saved, world, opsLeft>>

\* one client calling the repository, one call after the other, over a
\* healthy disk that nothing else touches
InitRepo ==
    /\ NewConcurrencyLimiter
    /\ workload = Workload({}, 0, 0, 0, 0, 0, {})
    /\ NewRepo
    /\ world \in Worlds
    /\ opsLeft = MaxOps

NextRepo ==
    \/ \E t \in Threads : Call_SaveFile(t) /\ UNCHANGED limiterVars
    \/ \E t \in Threads : Call_GetFile(t) /\ UNCHANGED limiterVars
    \/ \E t \in Threads : Call_DeleteFile(t) /\ UNCHANGED limiterVars
    \/ \E t \in Threads : SaveFile(t) /\ UNCHANGED limiterVars
    \/ \E t \in Threads : GetFile(t) /\ UNCHANGED limiterVars
    \/ \E t \in Threads : DeleteFile(t) /\ UNCHANGED limiterVars

SpecRepo == InitRepo /\ [][NextRepo]_vars

(***************************************************************************)
(* The storage manager over a directory that can fail, that other          *)
(* processes touch, and that outlives the server.                          *)
(***************************************************************************)
\* os.ReadDir: the entries of the directory, one after the other (the names
\* are distinct, and the scan below does not depend on their order)
ReadDir(dir) ==
    LET RECURSIVE Entries(_)
        Entries(names) ==
            IF names = {} THEN <<>>
            ELSE LET name == CHOOSE n \in names : TRUE
                 IN <<name>> \o Entries(names \ {name})
    IN Entries(DOMAIN dir)

\* a scan that takes sub-directories for files
loadExistingFilesAll(dir, skipped) ==
    [name \in DOMAIN dir \ skipped |->
        FileInfo(name, name, dir[name].mtime, dir[name].mtime, dir[name].data.size)]

\* loadExistingFiles: for each entry of the directory, skip sub-directories
\* and entries whose Info() fails (skipped), and record the others under
\* their names
loadExistingFiles(dir, skipped) ==
    LET RECURSIVE Load(_, _)
        Load(entries, f) ==
            IF entries = <<>> THEN f
            ELSE LET name == Head(entries) IN
                 IF dir[name].dir \/ name \in skipped
                 THEN Load(Tail(entries), f)
                 ELSE Load(Tail(entries),
                           Put(f, name, FileInfo(name, name, dir[name].mtime,
                                                 dir[name].mtime, dir[name].data.size)))
    IN Load(ReadDir(dir), Empty)

\* the entries whose Info() can fail
Unreadable(dir) == IF "stat" \in world.faults THEN SUBSET DOMAIN dir ELSE {{}}

\* another process removes a file of the storage directory
RemoveOutOfBand ==
    /\ world.oob
    /\ \E name \in DOMAIN disk : disk' = Drop(disk, name)
    /\ UNCHANGED <<files, mutex, th, clock, saved, world, opsLeft>>

\* The server process dies, at any point of any call, and is started again:
\* main calls NewRepo, which builds the cache from the directory.  The calls
\* in flight are lost with the process; t1 is left at the return of NewRepo,
\* with the cache and the directory at the crash in pre.
Restart ==
    /\ world.crash
    /\ opsLeft > 0
    /\ opsLeft' = opsLeft - 1
    /\ \E skipped \in Unreadable(disk) :
           /\ files' = loadExistingFiles(disk, skipped)
           /\ th' = [t \in Threads |->
                        IF t = "t1"
                        THEN [Idle EXCEPT !.pc = "done", !.op = "NewRepo",
                                          !.skipped = skipped,
                                          !.pre = [files |-> files, disk |-> disk],
                                          !.last = Summary(th[t])]
                        ELSE Idle]
    /\ mutex' = [w |-> "", r |-> 0]
    /\ UNCHANGED <<disk, clock, saved, world>>

\* the world where files disappear, the world where system calls fail, and
\* the world where the server restarts over a directory that already holds a
\* file and a sub-directory
StoreWorlds ==
    { [World({"a.txt"}, {Payload(1, "A"), Payload(1, "B")}) EXCEPT !.oob = TRUE],
      [World({"a.txt"}, {Payload(1, "A"), Payload(1, "B")})
          EXCEPT !.faults = {"write", "read", "remove"}],
      [World({"a.txt"}, {Payload(1, "A")})
          EXCEPT !.crash = TRUE, !.faults = {"stat"},
                 !.disk0 = Put(Put(Empty, "tmp", Directory),
                               "9d5e", RegularFile(Payload(1, "B"), 1))] }

InitStore ==
    /\ NewConcurrencyLimiter
    /\ workload = Workload({}, 0, 0, 0, 0, 0, {})
    /\ world \in StoreWorlds
    /\ disk = world.disk0
    /\ files = loadExistingFiles(world.disk0, {})
    /\ mutex = [w |-> "", r |-> 0]
    /\ th = [t \in Threads |-> Idle]
    /\ clock = 1
    /\ saved = Empty
    /\ opsLeft = MaxOps

NextStore ==
    \/ \E t \in Threads : Call_SaveFile(t) /\ UNCHANGED limiterVars
    \/ \E t \in Threads : Call_GetFile(t) /\ UNCHANGED limiterVars
    \/ \E t \in Threads : Call_DeleteFile(t) /\ UNCHANGED limiterVars
    \/ \E t \in Threads : SaveFile(t) /\ UNCHANGED limiterVars
    \/ \E t \in Threads : GetFile(t) /\ UNCHANGED limiterVars
    \/ \E t \in Threads : DeleteFile(t) /\ UNCHANGED limiterVars
    \/ RemoveOutOfBand /\ UNCHANGED limiterVars
    \/ Restart /\ UNCHANGED limiterVars

SpecStore == InitStore /\ [][NextStore]_vars

(***************************************************************************)
(* GetStats(): RLock, with the RUnlock deferred; len(r.files); the sum of  *)
(* the sizes; return.                                                      *)
(***************************************************************************)
Call_GetStats(t) == CallRepo(t, "GetStats", "", NoData, "")

GetStats(t) ==
    LET c == th[t] IN
    \/ /\ c.pc = "GetStats"
       /\ CanRLock
       /\ mutex' = [mutex EXCEPT !.r = @ + 1]
       /\ th' = [th EXCEPT ![t].pc = "stats_count"]
       /\ UNCHANGED <<files, disk, clock, saved, world, opsLeft>>
    \/ /\ c.pc = "stats_count"
       /\ th' = [th EXCEPT ![t].outCount = GetStatsOf(files).count, ![t].pc = "stats_sum"]
       /\ UNCHANGED <<files, disk, mutex, clock, saved, world, opsLeft>>
    \/ /\ c.pc = "stats_sum"
       /\ th' = [th EXCEPT ![t].outTotal = GetStatsOf(files).total, ![t].pc = "stats_runlock"]
       /\ UNCHANGED <<files, disk, mutex, clock, saved, world, opsLeft>>
    \/ /\ c.pc = "stats_runlock"
       /\ mutex' = RUnlock(mutex)
       /\ th' = [th EXCEPT ![t] = [c EXCEPT !.pc = "done", !.err = ""]]
       /\ UNCHANGED <<files, disk, clock, saved, world, opsLeft>>

\* two clients at once, saving payloads of different sizes, two of them with
\* the same MD5 sum, and asking for the statistics, over an empty directory
ConcWorlds ==
    { [World({"a.txt"}, {Payload(1, "A"), Payload(128, "X1"), Payload(128, "X2")})
          EXCEPT !.threads = Threads, !.ops = {"SaveFile", "GetStats"}] }

InitConc ==
    /\ NewConcurrencyLimiter
    /\ workload = Workload({}, 0, 0, 0, 0, 0, {})
    /\ NewRepo
    /\ world \in ConcWorlds
    /\ opsLeft = MaxOps

NextConc ==
    \/ \E t \in Threads : Call_SaveFile(t) /\ UNCHANGED limiterVars
    \/ \E t \in Threads : Call_GetStats(t) /\ UNCHANGED limiterVars
    \/ \E t \in Threads : SaveFile(t) /\ UNCHANGED limiterVars
    \/ \E t \in Threads : GetStats(t) /\ UNCHANGED limiterVars

SpecConc == InitConc /\ [][NextConc]_vars

(***************************************************************************)
(* ListFiles(): Lock, with the Unlock deferred; copy the records of the    *)
(* cache; return.                                                          *)
(***************************************************************************)
Call_ListFiles(t) == CallRepo(t, "ListFiles", "", NoData, "")

ListFiles(t) ==
    LET c == th[t] IN
    \/ /\ c.pc = "ListFiles"
       /\ CanLock
       /\ mutex' = [mutex EXCEPT !.w = t]
       /\ th' = [th EXCEPT ![t].pc = "list_copy"]
       /\ UNCHANGED <<files, disk, clock, saved, world, opsLeft>>
    \/ /\ c.pc = "list_copy"
       /\ th' = [th EXCEPT ![t].outList = ListFilesOf(files), ![t].pc = "list_unlock"]
       /\ UNCHANGED <<files, disk, mutex, clock, saved, world, opsLeft>>
    \/ /\ c.pc = "list_unlock"
       /\ mutex' = [mutex EXCEPT !.w = ""]
       /\ th' = [th EXCEPT ![t] = [c EXCEPT !.pc = "done", !.err = ""]]
       /\ UNCHANGED <<files, disk, clock, saved, world, opsLeft>>

(***************************************************************************)
(* GetFileInfo(fileID): the empty id is refused; RLock, with the RUnlock   *)
(* deferred; look the id up in the cache; return.                          *)
(***************************************************************************)
Call_GetFileInfo(t) == \E fileID \in FileIDs : CallRepo(t, "GetFileInfo", "", NoData, fileID)

GetFileInfo(t) ==
    LET c == th[t] IN
    \/ /\ c.pc = "GetFileInfo"
       /\ th' = [th EXCEPT ![t] = IF c.fileID = "" THEN Fails(c, "ErrInvalidFileID")
                                  ELSE At(c, "info_rlock")]
       /\ UNCHANGED <<files, disk, mutex, clock, saved, world, opsLeft>>
    \/ /\ c.pc = "info_rlock"
       /\ CanRLock
       /\ mutex' = [mutex EXCEPT !.r = @ + 1]
       /\ th' = [th EXCEPT ![t].pc = "info_lookup"]
       /\ UNCHANGED <<files, disk, clock, saved, world, opsLeft>>
    \/ /\ c.pc = "info_lookup"
       /\ th' = [th EXCEPT ![t].exists = Lookup(c.fileID).exists,
                           ![t].fileInfo = Lookup(c.fileID).fileInfo,
                           ![t].pc = "info_runlock"]
       /\ UNCHANGED <<files, disk, mutex, clock, saved, world, opsLeft>>
    \/ /\ c.pc = "info_runlock"
       /\ mutex' = RUnlock(mutex)
       /\ th' = [th EXCEPT ![t] = IF c.exists THEN Returns(c, "", "", c.fileInfo, NoData)
                                  ELSE Fails(c, "ErrFileNotFound")]
       /\ UNCHANGED <<files, disk, clock, saved, world, opsLeft>>

(***************************************************************************)
(* Two clients at once on all the methods of the repository, over a        *)
(* healthy directory that nothing else touches.                            *)
(***************************************************************************)
\* the directory with the file of payload A, stored before the server starts
Stored == Put(Empty, "7fc5", RegularFile(Payload(1, "A"), 1))

RaceWorlds ==
    { \* the same content under two names, saved and read at once
      [World({"a.txt", "b.txt"}, {Payload(1, "A")})
          EXCEPT !.threads = Threads, !.ops = {"SaveFile", "GetFile"}],
      \* a stored file read and deleted at once
      [World({}, {Payload(1, "A")})
          EXCEPT !.threads = Threads, !.ops = {"GetFile", "DeleteFile"}, !.disk0 = Stored],
      \* a stored file read, deleted and saved again at once
      [World({"a.txt"}, {Payload(1, "A")})
          EXCEPT !.threads = Threads, !.ops = {"SaveFile", "GetFile", "DeleteFile"},
                 !.disk0 = Stored],
      \* the cache read by all its readers at once
      [World({}, {Payload(1, "A")})
          EXCEPT !.threads = Threads,
                 !.ops = {"GetFile", "ListFiles", "GetFileInfo", "GetStats"},
                 !.disk0 = Stored] }

InitRace ==
    /\ NewConcurrencyLimiter
    /\ workload = Workload({}, 0, 0, 0, 0, 0, {})
    /\ world \in RaceWorlds
    /\ disk = world.disk0
    /\ files = loadExistingFiles(world.disk0, {})
    /\ mutex = [w |-> "", r |-> 0]
    /\ th = [t \in Threads |-> Idle]
    /\ clock = 1
    /\ saved = Empty
    /\ opsLeft = MaxOps

NextRace ==
    \/ \E t \in Threads : Call_SaveFile(t) /\ UNCHANGED limiterVars
    \/ \E t \in Threads : Call_GetFile(t) /\ UNCHANGED limiterVars
    \/ \E t \in Threads : Call_DeleteFile(t) /\ UNCHANGED limiterVars
    \/ \E t \in Threads : Call_ListFiles(t) /\ UNCHANGED limiterVars
    \/ \E t \in Threads : Call_GetFileInfo(t) /\ UNCHANGED limiterVars
    \/ \E t \in Threads : Call_GetStats(t) /\ UNCHANGED limiterVars
    \/ \E t \in Threads : SaveFile(t) /\ UNCHANGED limiterVars
    \/ \E t \in Threads : GetFile(t) /\ UNCHANGED limiterVars
    \/ \E t \in Threads : DeleteFile(t) /\ UNCHANGED limiterVars
    \/ \E t \in Threads : ListFiles(t) /\ UNCHANGED limiterVars
    \/ \E t \in Threads : GetFileInfo(t) /\ UNCHANGED limiterVars
    \/ \E t \in Threads : GetStats(t) /\ UNCHANGED limiterVars

SpecRace == InitRace /\ [][NextRace]_vars

(***************************************************************************)
(* The readers of the cache next to its writers: two clients at once on    *)
(* ListFiles, GetFileInfo and GetStats, and on SaveFile and DeleteFile of  *)
(* a file that is stored when the server starts.                           *)
(***************************************************************************)
ReadWorlds ==
    { [World({"a.txt"}, {Payload(1, "A")})
          EXCEPT !.threads = Threads,
                 !.ops = {"SaveFile", "DeleteFile", "ListFiles", "GetFileInfo", "GetStats"},
                 !.disk0 = Stored] }

InitReads ==
    /\ NewConcurrencyLimiter
    /\ workload = Workload({}, 0, 0, 0, 0, 0, {})
    /\ world \in ReadWorlds
    /\ disk = world.disk0
    /\ files = loadExistingFiles(world.disk0, {})
    /\ mutex = [w |-> "", r |-> 0]
    /\ th = [t \in Threads |-> Idle]
    /\ clock = 1
    /\ saved = Empty
    /\ opsLeft = MaxOps

NextReads ==
    \/ \E t \in Threads : Call_SaveFile(t) /\ UNCHANGED limiterVars
    \/ \E t \in Threads : Call_DeleteFile(t) /\ UNCHANGED limiterVars
    \/ \E t \in Threads : Call_ListFiles(t) /\ UNCHANGED limiterVars
    \/ \E t \in Threads : Call_GetFileInfo(t) /\ UNCHANGED limiterVars
    \/ \E t \in Threads : Call_GetStats(t) /\ UNCHANGED limiterVars
    \/ \E t \in Threads : SaveFile(t) /\ UNCHANGED limiterVars
    \/ \E t \in Threads : DeleteFile(t) /\ UNCHANGED limiterVars
    \/ \E t \in Threads : ListFiles(t) /\ UNCHANGED limiterVars
    \/ \E t \in Threads : GetFileInfo(t) /\ UNCHANGED limiterVars
    \/ \E t \in Threads : GetStats(t) /\ UNCHANGED limiterVars

SpecReads == InitReads /\ [][NextReads]_vars

(***************************************************************************)
(* The second copy of the repository.  Its SaveFile takes the write lock   *)
(* for the lookup and then calls RUnlock; the rest of it, and its other    *)
(* methods, lock as the first copy does.                                   *)
(***************************************************************************)
\* the goroutines that can be waiting in RLock
PendingReaders == {t \in Threads : th[t].pc \in {"get_rlock", "info_rlock", "GetStats"}}

\* RUnlock of a mutex that is locked for writing (sync.RWMutex): with no
\* reader waiting the runtime ends the process with "fatal error: sync:
\* RUnlock of unlocked RWMutex"; with a reader waiting in RLock the counter
\* of the readers hides the fault and the call returns, the mutex still
\* locked for writing
RUnlockOfLocked(t) ==
    {"fatal"} \cup (IF PendingReaders \ {t} # {} THEN {"held"} ELSE {})

\* the process runs
Alive == \A t \in Threads : th[t].pc # "fatal"

Call_SaveFile2(t) ==
    \E filename \in world.names, data \in world.payloads :
        CallRepo(t, "SaveFile2", filename, data, "")

\* SaveFile of the second copy up to its second RUnlock; from os.WriteFile
\* on it is SaveFile
SaveFile2(t) ==
    LET c == th[t] IN
    \/ /\ c.pc = "SaveFile2"
       /\ LET err == validateFile(c.filename, c.data)
          IN th' = [th EXCEPT ![t] =
                       IF err # "" THEN Fails(c, err)
                       ELSE [c EXCEPT !.pc = "save2_lock",
                                      !.fileID = FileID(c.filename, c.data)]]
       /\ UNCHANGED <<files, disk, mutex, clock, saved, world, opsLeft>>
    \/ /\ c.pc = "save2_lock"
       /\ CanLock
       /\ mutex' = [mutex EXCEPT !.w = t]
       /\ th' = [th EXCEPT ![t].pc = "save2_check"]
       /\ UNCHANGED <<files, disk, clock, saved, world, opsLeft>>
    \/ /\ c.pc = "save2_check"
       /\ th' = [th EXCEPT ![t].exists = Exists(c.fileID), ![t].pc = "save2_runlock"]
       /\ UNCHANGED <<files, disk, mutex, clock, saved, world, opsLeft>>
    \/ /\ c.pc = "save2_runlock"
       /\ \E outcome \in RUnlockOfLocked(t) :
              IF outcome = "fatal"
              THEN /\ th' = [th EXCEPT ![t].pc = "fatal"]
                   /\ UNCHANGED saved
              ELSE IF c.exists
              THEN /\ th' = [th EXCEPT ![t] = Returns(c, "", c.fileID, NoInfo, NoData)]
                   /\ saved' = Saved(c.fileID, c.data)
              ELSE /\ th' = [th EXCEPT ![t].pc = "save_open"]
                   /\ UNCHANGED saved
       /\ UNCHANGED <<files, disk, mutex, clock, world, opsLeft>>

\* two clients at once on the second copy: a payload that is stored
\* already and one that is not
Repo2Worlds ==
    { [World({"a.txt", ""}, {Payload(1, "A"), Payload(1, "B")})
          EXCEPT !.threads = Threads,
                 !.ops = {"SaveFile2", "GetFile", "ListFiles", "GetStats"},
                 !.disk0 = Stored] }

InitRepo2 ==
    /\ NewConcurrencyLimiter
    /\ workload = Workload({}, 0, 0, 0, 0, 0, {})
    /\ world \in Repo2Worlds
    /\ disk = world.disk0
    /\ files = loadExistingFiles(world.disk0, {})
    /\ mutex = [w |-> "", r |-> 0]
    /\ th = [t \in Threads |-> Idle]
    /\ clock = 1
    /\ saved = Empty
    /\ opsLeft = MaxOps

NextRepo2 ==
    \/ \E t \in Threads : Alive /\ Call_SaveFile2(t) /\ UNCHANGED limiterVars
    \/ \E t \in Threads : Alive /\ Call_GetFile(t) /\ UNCHANGED limiterVars
    \/ \E t \in Threads : Alive /\ Call_ListFiles(t) /\ UNCHANGED limiterVars
    \/ \E t \in Threads : Alive /\ Call_GetStats(t) /\ UNCHANGED limiterVars
    \/ \E t \in Threads : Alive /\ SaveFile2(t) /\ UNCHANGED limiterVars
    \/ \E t \in Threads : Alive /\ SaveFile(t) /\ UNCHANGED limiterVars
    \/ \E t \in Threads : Alive /\ GetFile(t) /\ UNCHANGED limiterVars
    \/ \E t \in Threads : Alive /\ ListFiles(t) /\ UNCHANGED limiterVars
    \/ \E t \in Threads : Alive /\ GetStats(t) /\ UNCHANGED limiterVars

SpecRepo2 == InitRepo2 /\ [][NextRepo2]_vars

(***************************************************************************)
(* The gRPC handlers in front of the controller and the repository.  A     *)
(* goroutine serves one request: the handler validates it, the controller  *)
(* reads ctx and calls the repository and wraps its error, and the handler *)
(* turns the error into a status with handleError.                         *)
(***************************************************************************)
\* Handler.handleError: switch err compares err itself with the variables of
\* the repository's errors
handleError(err) ==
    CASE err = "ErrFileNotFound" -> "NotFound"
      [] err = "ErrInvalidFileID" -> "InvalidArgument"
      [] err = "ErrFileTooLarge" -> "InvalidArgument"
      [] err = "ErrInvalidFilename" -> "InvalidArgument"
      [] err = "ErrStorageUnavailable" -> "Internal"
      [] OTHER -> "Internal"

\* a return that passes the deferred function by
RepliesPastDefer(c, status) == [c EXCEPT !.pc = "replied", !.status = status]

\* the handler returns to grpc: to the deferred function of the interceptor
\* when the request holds a slot
Replies(c, status) ==
    [c EXCEPT !.pc = IF c.slot # "" THEN "release" ELSE "replied", !.status = status]

\* a controller method called without a handler returns
ControllerReturns(c, cerr) == [c EXCEPT !.pc = "returned", !.cerr = cerr]

\* a client sends a request of FileService, with a context that is
\* cancelled already or not
CallRpc(t, rpc, filename, data, fileID, ctxDone) ==
    /\ t \in world.threads
    /\ th[t].pc \in {"idle", "replied", "turned", "returned"}
    /\ opsLeft > 0
    /\ opsLeft' = opsLeft - 1
    /\ th' = [th EXCEPT ![t] =
                 [Idle EXCEPT !.pc = "Interceptor", !.rpc = rpc, !.filename = filename,
                              !.data = data, !.fileID = fileID, !.ctxDone = ctxDone,
                              !.pre = [files |-> files, disk |-> disk],
                              !.last = Summary(th[t])]]
    /\ UNCHANGED <<files, disk, mutex, clock, saved, world, limiterVars>>

Rpc_UploadFile(t) ==
    \E filename \in world.names, data \in world.payloads, ctxDone \in BOOLEAN :
        CallRpc(t, "UploadFile", filename, data, "", ctxDone)

Rpc_GetFile(t) ==
    \E fileID \in FileIDs, ctxDone \in BOOLEAN :
        CallRpc(t, "GetFile", "", NoData, fileID, ctxDone)

Rpc_ListFiles(t) ==
    \E ctxDone \in BOOLEAN : CallRpc(t, "ListFiles", "", NoData, "", ctxDone)

\* Controller.GetFileInfo and Controller.GetStats have no handler: they are
\* called as they are, outside the interceptor
CallController(t, method, fileID, ctxDone) ==
    /\ t \in world.threads
    /\ th[t].pc \in {"idle", "replied", "turned", "returned"}
    /\ opsLeft > 0
    /\ opsLeft' = opsLeft - 1
    /\ th' = [th EXCEPT ![t] =
                 [Idle EXCEPT !.pc = "Controller." \o method, !.rpc = method,
                              !.fileID = fileID, !.ctxDone = ctxDone,
                              !.pre = [files |-> files, disk |-> disk],
                              !.last = Summary(th[t])]]
    /\ UNCHANGED <<files, disk, mutex, clock, saved, world, limiterVars>>

Call_Controller_GetFileInfo(t) ==
    \E fileID \in FileIDs, ctxDone \in BOOLEAN :
        CallController(t, "GetFileInfo", fileID, ctxDone)

Call_Controller_GetStats(t) ==
    \E ctxDone \in BOOLEAN : CallController(t, "GetStats", "", ctxDone)

\* the caller cancels the context after the select of the interceptor and
\* before the controller reads it
CancelRpc(t) ==
    /\ th[t].pc \in {"Handler.UploadFile", "Handler.GetFile", "Handler.ListFiles",
                     "Controller.UploadFile", "Controller.GetFile", "Controller.ListFiles"}
    /\ ~th[t].ctxDone
    /\ th' = [th EXCEPT ![t].ctxDone = TRUE]
    /\ UNCHANGED <<files, disk, mutex, clock, saved, world, opsLeft, limiterVars>>

\* The interceptor in front of the handler: the select of
\* handleUploadDownload or handleList on the semaphore of the method, with
\* updateUploadStats(1) / updateListStats(1) after the send (one goroutine
\* here, so the update is one step with the send).
Interceptor(t) ==
    LET c == th[t]
        upload == Route("/FileService/" \o c.rpc) = "handleUploadDownload"
        free == IF upload THEN uploadSemaphore < UploadLimit ELSE listSemaphore < ListLimit
    IN
    /\ c.pc = "Interceptor"
    /\ \E case \in SelectCases(free, c.ctxDone) :
           IF case = "send"
           THEN /\ uploadSemaphore' = IF upload THEN uploadSemaphore + 1 ELSE uploadSemaphore
                /\ listSemaphore' = IF upload THEN listSemaphore ELSE listSemaphore + 1
                /\ stats' = IF upload
                            THEN [stats EXCEPT !.uploadActive = @ + 1, !.totalUploads = @ + 1]
                            ELSE [stats EXCEPT !.listActive = @ + 1, !.totalLists = @ + 1]
                /\ th' = [th EXCEPT ![t].pc = "Handler." \o c.rpc,
                                    ![t].slot = IF upload THEN "upload" ELSE "list"]
           ELSE /\ th' = [th EXCEPT ![t].pc = "turned",
                                    ![t].status = IF case = "done" THEN "Cancelled"
                                                  ELSE "TooMany"]
                /\ UNCHANGED <<uploadSemaphore, listSemaphore, stats>>
    /\ UNCHANGED <<statsLocked, reqs, burst, workload>>
    /\ UNCHANGED <<files, disk, mutex, clock, saved, world, opsLeft>>

\* the deferred function of the interceptor: the receive from the semaphore
\* and updateUploadStats(-1) / updateListStats(-1)
Release(t) ==
    LET c == th[t] IN
    /\ c.pc = "release"
    /\ IF c.slot = "upload"
       THEN /\ uploadSemaphore > 0
            /\ uploadSemaphore' = uploadSemaphore - 1
            /\ stats' = [stats EXCEPT !.uploadActive = @ - 1]
            /\ UNCHANGED listSemaphore
       ELSE /\ listSemaphore > 0
            /\ listSemaphore' = listSemaphore - 1
            /\ stats' = [stats EXCEPT !.listActive = @ - 1]
            /\ UNCHANGED uploadSemaphore
    /\ th' = [th EXCEPT ![t].pc = "replied", ![t].slot = ""]
    /\ UNCHANGED <<statsLocked, reqs, burst, workload>>
    /\ UNCHANGED <<files, disk, mutex, clock, saved, world, opsLeft>>

\* a controller that does not read ctx
CtxDoneNever(c) == FALSE

\* select { case <-ctx.Done(): return nil, ctx.Err(); default: } at the entry
\* of each method of the controller
CtxDone(c) == c.ctxDone

\* the entry of a method of the controller that a handler calls: ctx is
\* read, and the method of the repository is called when it is not done
ControllerEnters(c, op) ==
    IF CtxDone(c)
    THEN Replies([c EXCEPT !.body = TRUE, !.cerr = "context canceled"],
                 handleError("context canceled"))
    ELSE [c EXCEPT !.body = TRUE, !.pc = op, !.op = op]

\* the return of the repository through the controller, which wraps the
\* error, and through the handler, which makes a status of it
ControllerLeaves(c, msg) ==
    IF c.err # ""
    THEN Replies([c EXCEPT !.cerr = Errorf(msg, c.err)], handleError(Errorf(msg, c.err)))
    ELSE Replies(c, "OK")

\* Handler.UploadFile and Controller.UploadFile around Repository.SaveFile
Handler_UploadFile(t) ==
    LET c == th[t] IN
    /\ c.rpc = "UploadFile"
    /\ \/ /\ c.pc = "Handler.UploadFile"
          /\ th' = [th EXCEPT ![t] =
                       IF c.filename = "" \/ c.data.size = 0
                       THEN Replies(c, "InvalidArgument")
                       ELSE At(c, "Controller.UploadFile")]
       \/ /\ c.pc = "Controller.UploadFile"
          /\ th' = [th EXCEPT ![t] = ControllerEnters(c, "SaveFile")]
       \/ /\ c.pc = "done"
          /\ th' = [th EXCEPT ![t] = ControllerLeaves(c, "FAILED TO SAVE FILE")]
    /\ UNCHANGED <<files, disk, mutex, clock, saved, world, opsLeft, limiterVars>>

\* Handler.GetFile and Controller.GetFile around Repository.GetFile
Handler_GetFile(t) ==
    LET c == th[t] IN
    /\ c.rpc = "GetFile"
    /\ \/ /\ c.pc = "Handler.GetFile"
          /\ th' = [th EXCEPT ![t] =
                       IF c.fileID = "" THEN Replies(c, "InvalidArgument")
                       ELSE At(c, "Controller.GetFile")]
       \/ /\ c.pc = "Controller.GetFile"
          /\ th' = [th EXCEPT ![t] = ControllerEnters(c, "GetFile")]
       \/ /\ c.pc = "done"
          /\ th' = [th EXCEPT ![t] = ControllerLeaves(c, "FAILED TO GET FILE")]
    /\ UNCHANGED <<files, disk, mutex, clock, saved, world, opsLeft, limiterVars>>

\* Handler.ListFiles and Controller.ListFiles around Repository.ListFiles
Handler_ListFiles(t) ==
    LET c == th[t] IN
    /\ c.rpc = "ListFiles"
    /\ \/ /\ c.pc = "Handler.ListFiles"
          /\ th' = [th EXCEPT ![t] = At(c, "Controller.ListFiles")]
       \/ /\ c.pc = "Controller.ListFiles"
          /\ th' = [th EXCEPT ![t] = ControllerEnters(c, "ListFiles")]
       \/ /\ c.pc = "done"
          /\ th' = [th EXCEPT ![t] = ControllerLeaves(c, "FAILED TO FIND FILES")]
    /\ UNCHANGED <<files, disk, mutex, clock, saved, world, opsLeft, limiterVars>>

\* Controller.GetFileInfo and Controller.GetStats: ctx is read, and the
\* result of the repository is returned as it is
Controller_GetFileInfo(t) ==
    LET c == th[t] IN
    /\ c.rpc = "GetFileInfo"
    /\ \/ /\ c.pc = "Controller.GetFileInfo"
          /\ th' = [th EXCEPT ![t] =
                       IF CtxDone(c)
                       THEN ControllerReturns([c EXCEPT !.body = TRUE], "context canceled")
                       ELSE [c EXCEPT !.body = TRUE, !.pc = "GetFileInfo",
                                      !.op = "GetFileInfo"]]
       \/ /\ c.pc = "done"
          /\ th' = [th EXCEPT ![t] = ControllerReturns(c, c.err)]
    /\ UNCHANGED <<files, disk, mutex, clock, saved, world, opsLeft, limiterVars>>

Controller_GetStats(t) ==
    LET c == th[t] IN
    /\ c.rpc = "GetStats"
    /\ \/ /\ c.pc = "Controller.GetStats"
          /\ th' = [th EXCEPT ![t] =
                       IF CtxDone(c)
                       THEN ControllerReturns([c EXCEPT !.body = TRUE], "context canceled")
                       ELSE [c EXCEPT !.body = TRUE, !.pc = "GetStats", !.op = "GetStats"]]
       \/ /\ c.pc = "done"
          /\ th' = [th EXCEPT ![t] = ControllerReturns(c, c.err)]
    /\ UNCHANGED <<files, disk, mutex, clock, saved, world, opsLeft, limiterVars>>

\* requests with the filenames and payloads around the validations of the
\* handler and of the repository
RpcWorlds ==
    { World({"a.txt", "", "  "},
            {NoData, Payload(1, "A"), Payload(maxFileSize + 1, "L")}),
      [World({"a.txt"}, {Payload(1, "A")}) EXCEPT !.faults = {"write", "read"}] }

InitRpc ==
    /\ NewConcurrencyLimiter
    /\ workload = Workload({}, 0, 0, 0, 0, 0, {})
    /\ NewRepo
    /\ world \in RpcWorlds
    /\ opsLeft = MaxOps

NextRpc ==
    \/ \E t \in Threads : Rpc_UploadFile(t)
    \/ \E t \in Threads : Rpc_GetFile(t)
    \/ \E t \in Threads : Rpc_ListFiles(t)
    \/ \E t \in Threads : Call_Controller_GetFileInfo(t)
    \/ \E t \in Threads : Call_Controller_GetStats(t)
    \/ \E t \in Threads : CancelRpc(t)
    \/ \E t \in Threads : Interceptor(t)
    \/ \E t \in Threads : Release(t)
    \/ \E t \in Threads : Handler_UploadFile(t)
    \/ \E t \in Threads : Handler_GetFile(t)
    \/ \E t \in Threads : Handler_ListFiles(t)
    \/ \E t \in Threads : Controller_GetFileInfo(t)
    \/ \E t \in Threads : Controller_GetStats(t)
    \/ \E t \in Threads : SaveFile(t) /\ UNCHANGED limiterVars
    \/ \E t \in Threads : GetFile(t) /\ UNCHANGED limiterVars
    \/ \E t \in Threads : ListFiles(t) /\ UNCHANGED limiterVars
    \/ \E t \in Threads : GetFileInfo(t) /\ UNCHANGED limiterVars
    \/ \E t \in Threads : GetStats(t) /\ UNCHANGED limiterVars

SpecRpc == InitRpc /\ [][NextRpc]_vars

(***************************************************************************)
(* The server: two goroutines at once on the whole path of a request, the  *)
(* interceptor a statement a step, with cl.stats.mutex, around the         *)
(* handlers, the controller and the repository with r.mutex.               *)
(***************************************************************************)
\* a rejection after which the handler is called all the same
TurnedAwayIntoHandler(c, case) == [c EXCEPT !.pc = "Handler." \o c.rpc]

\* case <-ctx.Done(): return nil, ctx.Err(), and default: return nil,
\* fmt.Errorf("TOO MANY ...")
TurnedAway(c, case) ==
    [c EXCEPT !.pc = "turned", !.status = IF case = "done" THEN "Cancelled" ELSE "TooMany"]

\* the select of handleUploadDownload / handleList
Select(t) ==
    LET c == th[t]
        upload == Route("/FileService/" \o c.rpc) = "handleUploadDownload"
        free == IF upload THEN uploadSemaphore < UploadLimit ELSE listSemaphore < ListLimit
    IN
    /\ c.pc = "Interceptor"
    /\ \E case \in SelectCases(free, c.ctxDone) :
           IF case = "send"
           THEN /\ uploadSemaphore' = IF upload THEN uploadSemaphore + 1 ELSE uploadSemaphore
                /\ listSemaphore' = IF upload THEN listSemaphore ELSE listSemaphore + 1
                /\ th' = [th EXCEPT ![t].pc = "inc_lock",
                                    ![t].slot = IF upload THEN "upload" ELSE "list"]
           ELSE /\ th' = [th EXCEPT ![t] = TurnedAway(c, case)]
                /\ UNCHANGED <<uploadSemaphore, listSemaphore>>
    /\ UNCHANGED <<stats, statsLocked, reqs, burst, workload>>
    /\ UNCHANGED <<files, disk, mutex, clock, saved, world, opsLeft>>

\* a deferred Unlock that the method leaves out
StatsUnlockedNever(held) == held

\* cl.stats.mutex.Unlock(), deferred in updateUploadStats / updateListStats
StatsUnlocked(held) == FALSE

\* updateUploadStats(delta) / updateListStats(delta) of the goroutine t:
\* Lock; active += delta; if delta > 0 { total++ }; Unlock
UpdateStats(t) ==
    LET c == th[t]
        active == IF c.slot = "upload" THEN "uploadActive" ELSE "listActive"
        total == IF c.slot = "upload" THEN "totalUploads" ELSE "totalLists"
    IN
    /\ \/ /\ c.pc \in {"inc_lock", "dec_lock"}
          /\ CanLockStats
          /\ statsLocked' = TRUE
          /\ th' = [th EXCEPT ![t].pc = IF c.pc = "inc_lock" THEN "inc_active"
                                        ELSE "dec_active",
                              ![t].statsHeld = TRUE]
          /\ UNCHANGED stats
       \/ /\ c.pc \in {"inc_active", "dec_active"}
          /\ LET delta == Delta(c.pc)
             IN /\ stats' = [stats EXCEPT ![active] = @ + delta]
                /\ th' = [th EXCEPT ![t].pc = IF delta > 0 THEN "inc_total"
                                              ELSE "dec_unlock"]
          /\ UNCHANGED statsLocked
       \/ /\ c.pc = "inc_total"
          /\ stats' = [stats EXCEPT ![total] = @ + 1]
          /\ th' = [th EXCEPT ![t].pc = "inc_unlock"]
          /\ UNCHANGED statsLocked
       \/ /\ c.pc \in {"inc_unlock", "dec_unlock"}
          /\ statsLocked' = StatsUnlocked(statsLocked)
          /\ th' = [th EXCEPT ![t].pc = IF c.pc = "inc_unlock" THEN "Handler." \o c.rpc
                                        ELSE "replied",
                              ![t].statsHeld = StatsUnlocked(c.statsHeld),
                              ![t].slot = IF c.pc = "inc_unlock" THEN c.slot ELSE ""]
          /\ UNCHANGED stats
    /\ UNCHANGED <<uploadSemaphore, listSemaphore, reqs, burst, workload>>
    /\ UNCHANGED <<files, disk, mutex, clock, saved, world, opsLeft>>

\* the deferred function of the interceptor: the receive from the
\* semaphore, before updateUploadStats(-1) / updateListStats(-1)
Receive(t) ==
    LET c == th[t] IN
    /\ c.pc = "release"
    /\ IF c.slot = "upload"
       THEN /\ uploadSemaphore > 0
            /\ uploadSemaphore' = uploadSemaphore - 1
            /\ UNCHANGED listSemaphore
       ELSE /\ listSemaphore > 0
            /\ listSemaphore' = listSemaphore - 1
            /\ UNCHANGED uploadSemaphore
    /\ th' = [th EXCEPT ![t].pc = "dec_lock"]
    /\ UNCHANGED <<stats, statsLocked, reqs, burst, workload>>
    /\ UNCHANGED <<files, disk, mutex, clock, saved, world, opsLeft>>

\* a download that is admitted and sleeps in handleUploadDownload before
\* its handler is called
Sleeping == Req(GetMethod, "body", FALSE, TRUE, FALSE, "none")

\* one client, and two clients at once, uploading, downloading and listing
\* one payload; and one client while as many downloads as the pool admits
\* sleep in the interceptor
ServerWorlds ==
    { World({"a.txt"}, {Payload(1, "A")}),
      [World({"a.txt"}, {Payload(1, "A")}) EXCEPT !.threads = Threads],
      [World({"a.txt"}, {Payload(1, "A")}) EXCEPT !.held = UploadLimit] }

InitServer ==
    /\ world \in ServerWorlds
    /\ uploadSemaphore = world.held
    /\ listSemaphore = 0
    /\ stats = [uploadActive |-> world.held, listActive |-> 0,
                totalUploads |-> world.held, totalLists |-> 0]
    /\ statsLocked = FALSE
    /\ reqs = IF world.held = 0 THEN EmptyBag ELSE [r \in {Sleeping} |-> world.held]
    /\ burst = [p \in Pools |-> [open |-> TRUE, n |-> 0, adm |-> 0, rej |-> 0, ever |-> 0]]
    /\ workload = Workload({}, 0, 0, 0, 0, 0, {})
    /\ NewRepo
    /\ opsLeft = MaxOps

\* the steps of the goroutines that serve the requests
ServerSteps ==
    \/ \E t \in Threads : Select(t)
    \/ \E t \in Threads : UpdateStats(t)
    \/ \E t \in Threads : Receive(t)
    \/ \E t \in Threads : Handler_UploadFile(t)
    \/ \E t \in Threads : Handler_GetFile(t)
    \/ \E t \in Threads : Handler_ListFiles(t)
    \/ \E t \in Threads : SaveFile(t) /\ UNCHANGED limiterVars
    \/ \E t \in Threads : GetFile(t) /\ UNCHANGED limiterVars
    \/ \E t \in Threads : ListFiles(t) /\ UNCHANGED limiterVars

NextServer ==
    \/ \E t \in Threads : Rpc_UploadFile(t)
    \/ \E t \in Threads : Rpc_GetFile(t)
    \/ \E t \in Threads : Rpc_ListFiles(t)
    \/ ServerSteps

SpecServer == InitServer /\ [][NextServer]_vars

(***************************************************************************)
(* The server under a fair scheduler: every goroutine that can take a      *)
(* step takes it in the end, and the downloads that sleep in the           *)
(* interceptor wake up, run their handlers and return.                     *)
(***************************************************************************)
\* the steps of the goroutine t
ThreadSteps(t) ==
    \/ Select(t)
    \/ UpdateStats(t)
    \/ Receive(t)
    \/ Handler_UploadFile(t)
    \/ Handler_GetFile(t)
    \/ Handler_ListFiles(t)
    \/ SaveFile(t) /\ UNCHANGED limiterVars
    \/ GetFile(t) /\ UNCHANGED limiterVars
    \/ ListFiles(t) /\ UNCHANGED limiterVars

\* the steps of the downloads that were admitted before
SleeperSteps ==
    \/ \E r \in InFlight : handlerReturns(r)
    \/ \E r \in InFlight : releaseUpload(r)
    \/ \E r \in InFlight : updateUploadStats(r)
    \/ \E r \in InFlight : Return(r)

\* two clients with MaxRacing requests between them, and one client with
\* MinorCalls requests next to ten downloads that hold the pool of the
\* transfers and leave the interceptor one after the other
LiveWorlds ==
    { [World({"a.txt"}, {Payload(1, "A")}) EXCEPT !.threads = Threads],
      [World({"a.txt"}, {Payload(1, "A")}) EXCEPT !.held = UploadLimit] }

InitLive ==
    /\ world \in LiveWorlds
    /\ uploadSemaphore = world.held
    /\ listSemaphore = 0
    /\ stats = [uploadActive |-> world.held, listActive |-> 0,
                totalUploads |-> world.held, totalLists |-> 0]
    /\ statsLocked = FALSE
    /\ reqs = IF world.held = 0 THEN EmptyBag ELSE [r \in {Sleeping} |-> world.held]
    /\ burst = [p \in Pools |-> [open |-> TRUE, n |-> 0, adm |-> 0, rej |-> 0, ever |-> 0]]
    /\ workload = Workload({}, 0, 0, 0, 1, 0, {})
    /\ NewRepo
    /\ opsLeft = IF world.held = 0 THEN MaxRacing ELSE MinorCalls

NextLive ==
    \/ \E t \in Threads : Rpc_UploadFile(t)
    \/ \E t \in Threads : Rpc_GetFile(t)
    \/ \E t \in Threads : Rpc_ListFiles(t)
    \/ \E t \in Threads : ThreadSteps(t)
    \/ SleeperSteps

SpecLive ==
    /\ InitLive
    /\ [][NextLive]_vars
    /\ \A t \in Threads : WF_vars(ThreadSteps(t))
    /\ WF_vars(SleeperSteps)

(***************************************************************************)
(* The claims.                                                             *)
(***************************************************************************)
\* the gated requests whose select has chosen
Attempts == {r \in InFlight : Class(r.m) \in Pools /\ r.pc # "start"}
\* those the admission layer has turned away
Turned == {r \in Attempts : ~r.adm}

\* C1: in every reachable state at most 10 upload/download requests hold a
\* slot of the transfer pool (admitted and not yet released), and at most 100
\* list requests hold a slot of the listing pool.
C1_SlotsBounded ==
    /\ Count(Holders("upload")) <= UploadLimit
    /\ Count(Holders("list")) <= ListLimit

\* ten transfers hold their slots and one more request is about to attempt
C1_Witness ==
    /\ Count(Holders("upload")) = UploadLimit
    /\ \E r \in InFlight : Class(r.m) = "upload" /\ r.pc = "start"

\* C2: of the N attempts of non-cancelled requests of one class on an empty
\* pool, none of whose holders has released, exactly min(N, capacity) were
\* admitted and the other N - min(N, capacity) rejected with TooMany; and a
\* request is rejected with TooMany only if its pool was full at its attempt.
C2_BurstAdmission ==
    /\ \A p \in Pools :
           burst[p].open =>
               /\ burst[p].adm = Min(burst[p].n, Limit(p))
               /\ burst[p].rej = burst[p].n - Min(burst[p].n, Limit(p))
    /\ \A r \in Turned : r.res = "TooMany" => r.full

\* 101 list requests have attempted: 100 admitted, one rejected
C2_Witness ==
    /\ burst["list"].open
    /\ burst["list"].n = ListLimit + 1
    /\ burst["list"].rej = 1

\* C3: the pools are independent: the occupancy of each pool is the number of
\* requests of its own class that hold a slot (so that admitting or releasing
\* a request of the other class never changes it), and a request is rejected
\* with TooMany only if the pool of its own class was full.
C3_PoolsIndependent ==
    /\ uploadSemaphore = Count(Holders("upload"))
    /\ listSemaphore = Count(Holders("list"))
    /\ \A r \in Turned : r.res = "TooMany" => r.full

\* C4: every acquired slot is released exactly once on every exit path: the
\* length of each channel is the number of admitted requests of its handler
\* that have not yet run their deferred receive, whatever the handler
\* returned, and once no admitted request is left both pools are empty.
C4_ReleasedOnce ==
    /\ \A p \in Pools : PoolLen(p) = Count(Holders(p))
    /\ \A r \in InFlight : r.adm /\ r.pc \in {"dec_lock", "dec_active", "dec_unlock", "ret"}
                               => r.res \in HandlerResults(r.m, r.done)
    /\ (\A r \in InFlight : ~(r.adm /\ r.pc \in HolderPcs))
           => uploadSemaphore = 0 /\ listSemaphore = 0

\* an admitted request whose caller cancelled during the handler has
\* released its slot, and the pool is empty again
C4_Witness ==
    /\ \E r \in InFlight : r.adm /\ r.pc = "ret" /\ r.res = "Cancelled"
    /\ uploadSemaphore = 0
    /\ stats.totalUploads > 1

\* C5: a non-cancelled request that finds no free slot fails at once with
\* TooMany: it is not admitted, it returns, and no request ever waits at the
\* select (the select can always choose a case).
C5_NoWaiting ==
    /\ \A r \in Attempts : r.full /\ ~r.done
                               => r.res = "TooMany" /\ ~r.adm /\ r.pc = "ret"
    /\ \A r \in InFlight : r.pc = "start" => ENABLED UnaryServerInterceptor(r)

\* a non-cancelled request was rejected on a full pool
C5_Witness ==
    \E r \in Turned : r.full /\ ~r.done /\ r.res = "TooMany" /\ r.pc = "ret"

\* C6: a request whose caller had cancelled before the attempt and that finds
\* no free slot fails with Cancelled, never with TooMany.
C6_CancelledWhenFull ==
    \A r \in Turned : r.full /\ r.done => r.res = "Cancelled" /\ r.pc = "ret"

\* a cancelled request was turned away by a full pool
C6_Witness ==
    \E r \in Turned : r.full /\ r.done /\ r.res = "Cancelled"

\* C7 as stated: a request that finds a free slot is admitted and its handler
\* runs, whether or not its caller had cancelled; the admission layer returns
\* Cancelled only on a full pool.
C7_FreeSlotAdmits ==
    /\ \A r \in Attempts : ~r.full => r.adm
    /\ \A r \in Turned : r.res = "Cancelled" => r.full
    /\ \A r \in Attempts : r.adm /\ r.pc \notin HolderPcs \ {"release"}
                               => r.res \in HandlerResults(r.m, r.done)

\* C7 amended: a request that finds a free slot is never rejected with
\* TooMany; it is admitted and its handler runs if its caller had not
\* cancelled before the attempt, and if the caller had, it is either admitted
\* or turned away with Cancelled.
C7_FreeSlotAmended ==
    /\ \A r \in Attempts : ~r.full => r.adm \/ (r.done /\ r.res = "Cancelled" /\ r.pc = "ret")
    /\ \A r \in Turned : r.res = "TooMany" => r.full /\ ~r.done
    /\ \A r \in Attempts : r.adm /\ r.pc \notin HolderPcs \ {"release"}
                               => r.res \in HandlerResults(r.m, r.done)

\* a cancelled request was turned away with Cancelled though a slot was free
C7_Witness ==
    \E r \in Turned : ~r.full /\ r.done /\ r.res = "Cancelled" /\ r.pc = "ret"

\* the ungated requests in flight, by position
Unrestricted(pc) == Count({r \in InFlight : Class(r.m) = "none" /\ r.pc = pc})
UnrestrictedBag ==
    [r \in {x \in InFlight : Class(x.m) = "none"} |-> CopiesIn(r, reqs)]

\* C8: an ungated request is passed straight to the handler in every state:
\* it is never admitted to a pool nor rejected by the interceptor, its step
\* from the entry of the interceptor is always possible and leads into the
\* handler, and no step of an ungated request changes the length of a
\* semaphore or one of the four statistics counters.
C8_Unrestricted ==
    /\ [](\A r \in InFlight : Class(r.m) = "none" =>
              /\ ~r.adm /\ ~r.full
              /\ r.pc \in {"start", "body", "ret"}
              /\ r.pc = "start" => ENABLED UnaryServerInterceptor(r)
              /\ r.pc = "ret" => r.res \in HandlerResults(r.m, r.done))
    /\ [][/\ Unrestricted("start")' < Unrestricted("start")
               => Unrestricted("body")' = Unrestricted("body") + 1
          /\ UnrestrictedBag' # UnrestrictedBag
               => UNCHANGED <<uploadSemaphore, listSemaphore, stats>>]_vars

\* an ungated request is in its handler while both pools are full
C8_Witness ==
    /\ Unrestricted("body") = 1
    /\ uploadSemaphore = UploadLimit
    /\ listSemaphore = ListLimit

(***************************************************************************)
(* Claims about the storage manager, on the calls of one client.           *)
(***************************************************************************)
ValidFilename(filename) == TrimSpace(filename) # ""
ValidPayload(data) == data.size >= 1 /\ data.size <= maxFileSize

\* thread t has returned from a call of op
Returned(t, op) == th[t].pc = "done" /\ th[t].op = op

\* C9: a SaveFile of the bytes the previous successful SaveFile has saved,
\* under any valid filename, returns the same fileID; it leaves the files on
\* disk and the metadata cache as they were before the call (the record keeps
\* the first filename and timestamps), with the one file and the one record
\* of that fileID.
C9_SaveTwice ==
    \A t \in Threads :
        LET c == th[t] IN
        (/\ Returned(t, "SaveFile")
         /\ ValidFilename(c.filename)
         /\ c.last.op = "SaveFile" /\ c.last.err = "" /\ c.last.data = c.data)
        => /\ c.err = ""
           /\ c.outID = c.last.outID
           /\ disk = c.pre.disk
           /\ files = c.pre.files
           /\ c.outID \in DOMAIN files /\ c.outID \in DOMAIN disk
           /\ files[c.outID].ID = EncodeToString(md5Sum(c.data))

\* the same bytes were saved a second time under another filename
C9_Witness ==
    \E t \in Threads :
        LET c == th[t] IN
        /\ Returned(t, "SaveFile") /\ c.err = ""
        /\ c.last.op = "SaveFile" /\ c.last.err = "" /\ c.last.data = c.data
        /\ c.last.filename # c.filename
        /\ files[c.outID].Filename = c.last.filename

\* C10: a SaveFile of a valid filename and a payload of 1 byte up to the
\* ceiling succeeds, and a GetFile of a fileID returns the bytes of the latest
\* successful SaveFile that returned this fileID (no DeleteFile of it in
\* between), with a record whose ID is the hash of these bytes and whose Size
\* is their length.
C10_RoundTrip ==
    \A t \in Threads :
        LET c == th[t] IN
        /\ (Returned(t, "SaveFile") /\ ValidFilename(c.filename) /\ ValidPayload(c.data))
               => c.err = "" /\ c.outID = EncodeToString(md5Sum(c.data))
        /\ (Returned(t, "GetFile") /\ c.fileID \in DOMAIN saved)
               => /\ c.err = ""
                  /\ c.outData = saved[c.fileID].latest
                  /\ c.outInfo.ID = EncodeToString(md5Sum(saved[c.fileID].latest))
                  /\ c.outInfo.Size = saved[c.fileID].latest.size

\* the round trip over contents with distinct digests: GetFile returns the
\* bytes of the first SaveFile of the fileID, which are the latest ones as
\* long as no two saved contents share a digest
C10_RoundTripFirst ==
    \A t \in Threads :
        LET c == th[t] IN
        (Returned(t, "GetFile") /\ c.fileID \in DOMAIN saved)
            => /\ c.err = ""
               /\ c.outData = saved[c.fileID].first
               /\ c.outInfo.ID = EncodeToString(md5Sum(saved[c.fileID].first))
               /\ c.outInfo.Size = saved[c.fileID].first.size

\* a filename of white space only, or of nothing
Blank(filename) ==
    \A i \in 1..Len(filename) : SubSeq(filename, i, i) \in {" ", "\t", "\n", "\r"}

ValidationErrors == {"ErrInvalidFilename", "ErrFileTooLarge", "ErrFileIsEmpty"}

\* C11: SaveFile validates the filename, then the ceiling, then the
\* emptiness: a blank filename gives ErrInvalidFilename whatever the payload,
\* otherwise a payload over the ceiling gives ErrFileTooLarge (one of exactly
\* the ceiling is accepted), otherwise an empty payload gives ErrFileIsEmpty;
\* after each of these failures the cache and the directory are as before.
C11_ValidationOrder ==
    \A t \in Threads :
        LET c == th[t] IN
        Returned(t, "SaveFile") =>
            /\ Blank(c.filename) => c.err = "ErrInvalidFilename"
            /\ ~Blank(c.filename) /\ c.data.size > maxFileSize => c.err = "ErrFileTooLarge"
            /\ ~Blank(c.filename) /\ c.data.size = 0 => c.err = "ErrFileIsEmpty"
            /\ ~Blank(c.filename) /\ c.data.size >= 1 /\ c.data.size <= maxFileSize
                   => c.err \notin ValidationErrors
            /\ c.err \in ValidationErrors
                   => files = c.pre.files /\ disk = c.pre.disk /\ c.outID = ""

\* a payload over the ceiling under a blank filename was refused for its
\* filename, after a payload of exactly the ceiling had been saved
C11_Witness ==
    \E t \in Threads :
        LET c == th[t] IN
        /\ Returned(t, "SaveFile") /\ c.filename = "  " /\ c.data.size = maxFileSize + 1
        /\ c.err = "ErrInvalidFilename"
        /\ c.last.op = "SaveFile" /\ c.last.data.size = maxFileSize /\ c.last.err = ""

\* C15: a GetFile of a fileID after a successful DeleteFile of it, with no
\* successful SaveFile of that fileID since, fails with ErrFileNotFound; a
\* second DeleteFile of the fileID succeeds as well and changes nothing.
C15_NotFoundConvergence ==
    \A t \in Threads :
        LET c == th[t]
            afterDelete == c.last.op = "DeleteFile" /\ c.last.err = ""
                           /\ c.last.fileID = c.fileID
        IN /\ (Returned(t, "GetFile") /\ c.fileID # "" /\ c.fileID \notin DOMAIN saved)
                  => c.err = "ErrFileNotFound"
           /\ (Returned(t, "GetFile") /\ afterDelete) => c.err = "ErrFileNotFound"
           /\ (Returned(t, "DeleteFile") /\ afterDelete)
                  => c.err = "" /\ files = c.pre.files /\ disk = c.pre.disk

\* a file was saved and deleted, and the second DeleteFile has returned
C15_Witness ==
    \E t \in Threads :
        LET c == th[t] IN
        /\ Returned(t, "DeleteFile") /\ c.err = ""
        /\ c.last.op = "DeleteFile" /\ c.last.err = "" /\ c.last.fileID = c.fileID
        /\ c.last.existed

(***************************************************************************)
(* Claims about the storage manager over a directory that can fail, lose   *)
(* files and outlive the server.                                           *)
(***************************************************************************)
\* C12: GetFile("") fails with ErrInvalidFileID, and GetFile of a non-empty
\* id that the cache does not hold fails with ErrFileNotFound, also when the
\* directory holds a file of that name; the call never comes to read the
\* directory, and it leaves the cache (and the directory) as they were.
C12_GetMisses ==
    \A t \in Threads :
        LET c == th[t] IN
        /\ c.pc = "get_read" => c.fileID # "" /\ c.fileID \in DOMAIN c.pre.files
        /\ Returned(t, "GetFile") /\ c.fileID = "" =>
               c.err = "ErrInvalidFileID" /\ files = c.pre.files
        /\ Returned(t, "GetFile") /\ c.fileID # "" /\ c.fileID \notin DOMAIN c.pre.files =>
               /\ c.err = "ErrFileNotFound"
               /\ c.outData = NoData
               /\ files = c.pre.files
               /\ ~world.oob => disk = c.pre.disk

\* a failed write has left a file that the cache does not know, reads can
\* fail, and GetFile of its name has returned ErrFileNotFound
C12_Witness ==
    \E t \in Threads :
        /\ Returned(t, "GetFile")
        /\ th[t].fileID \in DOMAIN disk
        /\ th[t].fileID \notin DOMAIN files
        /\ "read" \in world.faults
        /\ th[t].err = "ErrFileNotFound"

\* C13: when GetFile finds the id in the cache and the read finds no file,
\* the call goes on to evict the entry and returns ErrFileNotFound; at its
\* return the cache is the one of the call's start without that id, so that
\* ListFiles, GetStats and GetFileInfo over it report the id no longer.
C13_SelfHealing ==
    /\ [](\A t \in Threads :
            LET c == th[t] IN
            /\ c.pc \in {"get_evict_lock", "get_evict", "get_evict_unlock"} => c.exists
            /\ Returned(t, "GetFile") /\ c.exists /\ c.err = "ErrFileNotFound" =>
                   /\ c.fileID \notin DOMAIN files
                   /\ files = Drop(c.pre.files, c.fileID)
                   /\ \A info \in ListFilesOf(files) : info.ID # c.fileID
                   /\ GetFileInfoOf(files, c.fileID).err = "ErrFileNotFound"
                   /\ GetStatsOf(files).count = GetStatsOf(c.pre.files).count - 1)
    /\ [][\A t \in Threads :
            /\ th[t].pc = "get_read" /\ th[t].fileID \notin DOMAIN disk
               /\ th'[t] # th[t] /\ th'[t].op = "GetFile"
               => th'[t].pc = "get_evict_lock"
            /\ th[t].pc = "get_evict_unlock" /\ th'[t].pc = "done" /\ th'[t].op = "GetFile"
               => th'[t].err = "ErrFileNotFound"]_vars

\* the file of one of two cached entries was removed behind the server's
\* back, and GetFile of its id has returned ErrFileNotFound
C13_Witness ==
    \E t \in Threads :
        /\ Returned(t, "GetFile")
        /\ th[t].exists
        /\ th[t].err = "ErrFileNotFound"
        /\ world.oob
        /\ Cardinality(DOMAIN th[t].pre.files) = 2
        /\ Cardinality(DOMAIN files) = 1

\* C14: a GetFile that has found the id in the cache and whose read has
\* failed with another error than the absence of the file returns
\* ErrStorageUnavailable, and the entry stays in the cache.
C14_StorageUnavailable ==
    \A t \in Threads :
        LET c == th[t] IN
        Returned(t, "GetFile") /\ c.exists /\ c.err \notin {"", "ErrFileNotFound"} =>
            /\ c.err = "ErrStorageUnavailable"
            /\ c.fileID \in DOMAIN files

\* C16: DeleteFile("") returns ErrInvalidFileID and changes nothing.
\* DeleteFile of a non-empty id returns nil or ErrFailToDeleteFile; when it
\* returns nil the cache is the one of the call's start without the id,
\* whether or not a file was there, and no file of that name is left; it
\* returns ErrFailToDeleteFile only where removals can fail, and then the
\* cache, with the entry, is the one of the call's start.
C16_Delete ==
    \A t \in Threads :
        LET c == th[t] IN
        Returned(t, "DeleteFile") =>
            IF c.fileID = ""
            THEN /\ c.err = "ErrInvalidFileID"
                 /\ files = c.pre.files
                 /\ ~world.oob => disk = c.pre.disk
            ELSE /\ c.err \in {"", "ErrFailToDeleteFile"}
                 /\ c.err = "" =>
                        /\ files = Drop(c.pre.files, c.fileID)
                        /\ c.fileID \notin DOMAIN disk
                 /\ c.err = "ErrFailToDeleteFile" =>
                        /\ "remove" \in world.faults
                        /\ files = c.pre.files
                        /\ disk = c.pre.disk

\* the removal of the file of a cached entry has failed, and DeleteFile has
\* returned ErrFailToDeleteFile
C16_Witness ==
    \E t \in Threads :
        /\ Returned(t, "DeleteFile")
        /\ th[t].err = "ErrFailToDeleteFile"
        /\ th[t].fileID \in DOMAIN files
        /\ th[t].fileID \in DOMAIN disk

\* the positions of SaveFile up to the end of os.WriteFile
BeforeIndex == {"SaveFile", "save_md5", "save_rlock", "save_check", "save_runlock",
                "save_open", "save_write"}

\* C17: while a SaveFile has not finished os.WriteFile the cache is the one
\* of the call's start; when it comes to insert the entry the file holds the
\* bytes of the call (where nothing removes files behind the server's back);
\* a SaveFile whose write has failed returns the error with the cache as at
\* the call's start; and after a restart, at whatever point the server died,
\* every entry of the cache has its file.
C17_WriteThenIndex ==
    \A t \in Threads :
        LET c == th[t] IN
        /\ c.op = "SaveFile" /\ c.pc \in BeforeIndex => files = c.pre.files
        /\ c.op = "SaveFile" /\ c.pc \in {"save_lock", "save_insert"} /\ ~world.oob =>
               /\ c.fileID \in DOMAIN disk
               /\ disk[c.fileID] = RegularFile(c.data, disk[c.fileID].mtime)
        /\ Returned(t, "SaveFile") /\ c.err \notin ValidationErrors \cup {""} =>
               /\ c.err = Errorf("FAILED TO WRITE FILE", "EIO")
               /\ c.outID = ""
               /\ files = c.pre.files
        /\ Returned(t, "NewRepo") => DOMAIN files \subseteq DOMAIN disk

\* a SaveFile of new content has failed in the middle of its write: the
\* truncated file is in the directory and the cache has no entry for it
C17_Witness ==
    \E t \in Threads :
        /\ Returned(t, "SaveFile")
        /\ th[t].err = Errorf("FAILED TO WRITE FILE", "EIO")
        /\ th[t].fileID \in DOMAIN disk
        /\ disk[th[t].fileID].data = NoData
        /\ th[t].fileID \notin DOMAIN files

\* the regular files of the storage directory
Objects == {name \in DOMAIN disk : ~disk[name].dir}

\* the record the scan makes of a file
Loaded(name) ==
    /\ files[name].ID = name
    /\ files[name].Filename = name
    /\ files[name].Size = disk[name].data.size

Contents == UNION {{saved[id].first, saved[id].latest} : id \in DOMAIN saved}

\* the sum of the lengths of a set of payloads
TotalSize(payloads) ==
    LET RECURSIVE Sum(_)
        Sum(ps) == IF ps = {} THEN 0
                   ELSE LET d == CHOOSE x \in ps : TRUE IN d.size + Sum(ps \ {d})
    IN Sum(payloads)

\* no SaveFile is under way
Quiet == \A t \in Threads : th[t].op = "SaveFile" => th[t].pc = "done"

\* GetStats is about to return the aggregate of the cache as it is now
Snapshot(t) ==
    th[t].pc = "stats_runlock" =>
        /\ th[t].outCount = GetStatsOf(files).count
        /\ th[t].outTotal = GetStatsOf(files).total

\* C19: the count and the total that GetStats returns are those of one state
\* of the cache; and when the SaveFile calls of a run, made one after the
\* other or at once on an empty directory with no DeleteFile, have all
\* returned, having stored N different contents, GetStats returns the count
\* N and the sum of the N lengths.
C19_Stats ==
    \A t \in Threads :
        /\ Snapshot(t)
        /\ th[t].pc = "stats_runlock" /\ Quiet =>
               /\ th[t].outCount = Cardinality(Contents)
               /\ th[t].outTotal = TotalSize(Contents)

\* C19 for contents whose MD5 sums differ from one another
C19_StatsDistinctDigests ==
    \A t \in Threads :
        /\ Snapshot(t)
        /\ th[t].pc = "stats_runlock" /\ Quiet
           /\ (\A d, e \in Contents : md5Sum(d) = md5Sum(e) => d = e) =>
               /\ th[t].outCount = Cardinality(Contents)
               /\ th[t].outTotal = TotalSize(Contents)

\* two SaveFile calls that ran at once have stored two contents of different
\* lengths, and GetStats is about to return
C19_StatsDistinctDigestsWitness ==
    \E t \in Threads :
        /\ th[t].pc = "stats_runlock"
        /\ Quiet
        /\ Cardinality(Contents) = 2
        /\ th[t].outTotal = 129
        /\ \E u \in Threads : u # t /\ th[u].op = "SaveFile" /\ th[u].last.op = "SaveFile"
                              /\ th[u].err = ""

(***************************************************************************)
(* Claims about the statuses the handlers return.                          *)
(***************************************************************************)
\* the handler has answered the request rpc
Replied(t, rpc) == th[t].pc = "replied" /\ th[t].rpc = rpc

\* the errors of the repository that are faults of the request
InvalidArgumentErrors == {"ErrInvalidFilename", "ErrFileTooLarge", "ErrFileIsEmpty",
                          "ErrInvalidFileID"}

\* C20: a download of an id the cache does not hold is answered NotFound;
\* an upload with a blank filename, with more than 10 MiB or with no data,
\* and a download with no id, are answered InvalidArgument; Internal is the
\* answer to the other failures only.
C20_StatusMapping ==
    \A t \in Threads :
        LET c == th[t] IN
        c.pc = "replied" =>
            /\ c.err = "ErrFileNotFound" => c.status = "NotFound"
            /\ c.err \in InvalidArgumentErrors => c.status = "InvalidArgument"
            /\ c.rpc = "GetFile" /\ c.fileID = "" => c.status = "InvalidArgument"
            /\ c.rpc = "UploadFile" /\ validateFile(c.filename, c.data) # "" /\ ~c.ctxDone =>
                   c.status = "InvalidArgument"
            /\ c.status = "Internal" =>
                   c.err \notin InvalidArgumentErrors \cup {"ErrFileNotFound"}

\* C20, as the handlers do it: the requests the handlers refuse themselves
\* (no filename, no data, no id) are answered InvalidArgument, and every
\* error of the controller, a cancelled context or an error of the
\* repository of whatever kind, is answered Internal.
C20_StatusMappingWrapped ==
    \A t \in Threads :
        LET c == th[t] IN
        c.pc = "replied" =>
            /\ c.status \in {"OK", "InvalidArgument", "Internal"}
            /\ c.status = "InvalidArgument" <=>
                   IF c.rpc = "UploadFile" THEN c.filename = "" \/ c.data.size = 0
                   ELSE c.rpc = "GetFile" /\ c.fileID = ""
            /\ c.status = "OK" <=> c.op # "" /\ c.err = ""

\* a download of an id the cache does not hold was answered Internal
C20_StatusMappingWrappedWitness ==
    \E t \in Threads :
        /\ Replied(t, "GetFile")
        /\ th[t].err = "ErrFileNotFound"
        /\ th[t].status = "Internal"

(***************************************************************************)
(* Claims about the storage manager under two clients on all its methods.  *)
(***************************************************************************)
\* no call of the repository is under way
Quiescent == \A t \in Threads : th[t].pc \in {"idle", "done"}

\* C22: a record of the cache is never changed or replaced while its id
\* stays in the cache: every step leaves the records of the ids that are in
\* the cache before and after it as they were, also when two SaveFile calls
\* store the same content under different filenames at once.
C22_RecordImmutable ==
    [][\A id \in DOMAIN files \cap DOMAIN files' : files'[id] = files[id]]_vars

\* C23: where nothing is deleted, the SaveFile calls of the same bytes that
\* have returned nil have all returned the same id, whatever their
\* interleaving; and when no SaveFile is under way, for each of them the
\* directory holds one file with these bytes, complete, under that id, and
\* the cache one record for it.
C23_DuplicateSaves ==
    "DeleteFile" \notin world.ops =>
        /\ \A t, u \in Threads :
               /\ Returned(t, "SaveFile") /\ th[t].err = ""
                  /\ Returned(u, "SaveFile") /\ th[u].err = ""
                  /\ th[t].data = th[u].data
                  => th[t].outID = th[u].outID
               /\ Returned(t, "SaveFile") /\ th[t].err = ""
                  /\ th[t].last.op = "SaveFile" /\ th[t].last.err = ""
                  /\ th[t].data = th[t].last.data
                  => th[t].outID = th[t].last.outID
        /\ \A t \in Threads :
               Returned(t, "SaveFile") /\ th[t].err = "" /\ Quiet =>
                   LET id == th[t].outID IN
                   /\ id \in DOMAIN disk
                   /\ disk[id].data = th[t].data
                   /\ {k \in DOMAIN disk : disk[k].data = th[t].data} = {id}
                   /\ id \in DOMAIN files
                   /\ {k \in DOMAIN files : files[k].Size = th[t].data.size} = {id}
                   /\ files[id].ID = id

\* two SaveFile calls of the same bytes under two filenames have both found
\* no entry, have both written the file, and have both returned
C23_Witness ==
    /\ "DeleteFile" \notin world.ops
    /\ \A t \in Threads :
           /\ Returned(t, "SaveFile")
           /\ th[t].err = ""
           /\ ~th[t].exists
           /\ th[t].pre.files = Empty
    /\ th["t1"].filename # th["t2"].filename
    /\ th["t1"].data = th["t2"].data

\* C24: where no SaveFile runs, a GetFile of the id of a stored file, with
\* DeleteFile calls of that id running at once, returns either nil with the
\* record and the bytes of the stored file, or ErrFileNotFound with no data.
C24_GetOrNotFound ==
    "SaveFile" \notin world.ops =>
        \A t \in Threads :
            LET c == th[t] IN
            Returned(t, "GetFile") /\ c.fileID \in DOMAIN world.disk0 =>
                \/ /\ c.err = ""
                   /\ c.outData = world.disk0[c.fileID].data
                   /\ c.outInfo = loadExistingFiles(world.disk0, {})[c.fileID]
                \/ /\ c.err = "ErrFileNotFound"
                   /\ c.outData = NoData
                   /\ c.outInfo = NoInfo

\* a GetFile has found the entry of the stored file, a DeleteFile of the
\* other client has removed the file before the read, and the GetFile has
\* returned ErrFileNotFound
C24_Witness ==
    /\ "SaveFile" \notin world.ops
    /\ \E t, u \in Threads :
           /\ Returned(t, "GetFile")
           /\ th[t].exists
           /\ th[t].err = "ErrFileNotFound"
           /\ u # t
           /\ th[u].op = "DeleteFile"
           /\ th[u].fileID = th[t].fileID

\* C25: over a healthy directory that nothing else touches, in every state
\* where no call is under way the ids of the cache are the names of the
\* files of the directory.
C25_Convergence ==
    ~world.oob /\ world.faults = {} /\ Quiescent => DOMAIN files = DOMAIN disk

\* C28: when GetFile removes an entry from the cache (the eviction), the
\* directory holds no file of that id at that moment.
C28_EvictionAtomic ==
    [][\A t \in Threads :
          th[t].pc = "get_evict" /\ th'[t].pc = "get_evict_unlock"
          /\ th[t].fileID \in DOMAIN files
          => th[t].fileID \notin DOMAIN disk]_vars

\* C29: the bytes a GetFile returns with nil have the id it was asked for as
\* their hash, whatever runs at once.
C29_ContentIntegrity ==
    \A t \in Threads :
        Returned(t, "GetFile") /\ th[t].err = "" =>
            FileID("", th[t].outData) = th[t].fileID

\* the critical sections that read the cache, and those that change it
ReadSections == {"get_lookup", "get_runlock", "list_copy", "list_unlock", "stats_count",
                 "stats_sum", "stats_runlock", "info_lookup", "info_runlock"}
WriteSections == {"save_insert", "save_unlock", "del_delete", "del_unlock", "get_evict",
                  "get_evict_unlock"}

\* C30: a goroutine inside a critical section that reads the cache (the
\* lookup of GetFile, ListFiles, GetStats, GetFileInfo) holds the mutex as a
\* reader, and one inside the insertion of SaveFile, the removal of
\* DeleteFile or the eviction of GetFile holds it as the writer.
C30_LockModes ==
    \A t \in Threads :
        /\ th[t].pc \in ReadSections => mutex.w = "" /\ mutex.r >= 1
        /\ th[t].pc \in WriteSections => mutex.w = t /\ mutex.r = 0

\* C30 without ListFiles: the lookup of GetFile, GetStats and GetFileInfo
\* hold the mutex as readers, and ListFiles, like the insertion, the removal
\* and the eviction, holds it as the writer.
C30_LockModesButList ==
    \A t \in Threads :
        /\ th[t].pc \in ReadSections \ {"list_copy", "list_unlock"} =>
               mutex.w = "" /\ mutex.r >= 1
        /\ th[t].pc \in WriteSections \cup {"list_copy", "list_unlock"} =>
               mutex.w = t /\ mutex.r = 0

\* two readers are inside their critical sections at once
C30_LockModesButListWitness ==
    /\ mutex.r = 2
    /\ th["t1"].pc = "stats_sum"
    /\ th["t2"].pc = "info_lookup"

(***************************************************************************)
(* Claims about the statistics and the errors of the admission layer.      *)
(***************************************************************************)
Active(p) == IF p = "upload" THEN stats.uploadActive ELSE stats.listActive

\* the requests of pool p between the send and the increment of the active
\* counter, or between the receive and its decrement
Pending(p) == {r \in InFlight : Class(r.m) = p
                                /\ r.pc \in {"inc_lock", "inc_active", "dec_lock", "dec_active"}}

\* the requests of pool p admitted and not yet counted in the total counter
Uncounted(p) == {r \in InFlight : Class(r.m) = p /\ r.adm
                                  /\ r.pc \in {"inc_lock", "inc_active", "inc_total"}}

\* C26: whenever no request of a pool is between its send or receive on the
\* semaphore and the update of the active counter, the active counter is the
\* number of slots held in the pool; the total counter is the number of
\* admissions made to the pool so far less those not yet counted; and when
\* every request has finished active is 0 and total is the number of
\* admissions ever made.
C26_StatsTrackPools ==
    \A p \in Pools :
        /\ Pending(p) = {} => Active(p) = PoolLen(p) /\ Active(p) = Count(Holders(p))
        /\ Total(p) + Count(Uncounted(p)) = burst[p].ever
        /\ reqs = EmptyBag => Active(p) = 0 /\ Total(p) = burst[p].ever

\* every request has finished, after more downloads than the pool has slots
\* were asked for, ten of them admitted at once
C26_Witness ==
    /\ reqs = EmptyBag
    /\ stats.totalUploads >= UploadLimit
    /\ stats.uploadActive = 0
    /\ burst["upload"].ever = stats.totalUploads

\* the errors the interceptor can return: status.Error(code, msg) of the
\* handlers, the error of fmt.Errorf(msg) with no %w, and ctx.Err()
StatusError(code, msg) == [type |-> "status", code |-> code, msg |-> msg]
ErrorString(msg) == [type |-> "errorString", code |-> "", msg |-> msg]
ContextCanceled == [type |-> "context", code |-> "", msg |-> "context canceled"]

\* the error of the default case of the select, by pool
TooManyError(p) ==
    IF p = "upload" THEN ErrorString("TOO MANY CONC UPLOAD/DOWNLOAD REQUESTS, MAX 10")
    ELSE ErrorString("TOO MANY CONC LIST REQUESTS, MAX 100")

\* the errors the interceptor can return for a request at its return: those
\* of its own select, and those of the handler, which answers with the
\* status of its validation or with the status handleError makes of the
\* controller's error, ctx.Err() included
ErrorsOf(r) ==
    CASE r.res = "TooMany" -> {TooManyError(Class(r.m))}
      [] r.res = "Cancelled" /\ ~r.adm /\ Class(r.m) \in Pools -> {ContextCanceled}
      [] r.res = "Cancelled" ->
             {StatusError(handleError("context canceled"), "INTERNAL ERROR: context canceled")}
      [] r.res = "Error" ->
             {StatusError(code, "") : code \in {"InvalidArgument", "Internal"}}
      [] OTHER -> {}

\* what a caller can tell of an error by its type: the code of a status, the
\* identity of context.Canceled, and nothing of an error that is only a text
Typed(e) == e.type \in {"status", "context"}
Kind(e) == IF e.type = "status" THEN e.code
           ELSE IF e.type = "context" THEN "Canceled"
           ELSE "Unknown"

\* C21: a request turned away because its pool was full gets a typed error
\* whose kind is not that of the internal errors, of a cancellation or of a
\* validation error; a request turned away because its caller had cancelled
\* gets a typed error whose kind is not that of a validation error or of the
\* admission rejection.
C21_Distinguishable ==
    \A r \in InFlight :
        r.pc = "ret" /\ Class(r.m) \in Pools =>
            \A e \in ErrorsOf(r) :
                /\ r.res = "TooMany" =>
                       /\ Typed(e)
                       /\ Kind(e) \notin {"Internal", "Canceled", "InvalidArgument"}
                /\ r.res = "Cancelled" /\ ~r.adm =>
                       /\ Typed(e)
                       /\ Kind(e) \notin {"InvalidArgument", Kind(TooManyError(Class(r.m)))}

\* C21 as the interceptor does it: the rejection is an error that is only a
\* text, which no handler returns, and the cancellation is ctx.Err().
C21_DistinguishableByText ==
    \A r \in InFlight :
        r.pc = "ret" /\ Class(r.m) \in Pools =>
            \A e \in ErrorsOf(r) :
                /\ r.res = "TooMany" => ~Typed(e) /\ Kind(e) = "Unknown"
                /\ r.res = "Cancelled" /\ ~r.adm => Kind(e) = "Canceled"
                /\ r.res \in {"Error", "Cancelled"} /\ r.adm =>
                       Kind(e) \in {"InvalidArgument", "Internal"}

\* a download was turned away on the full pool
C21_DistinguishableByTextWitness ==
    \E r \in InFlight : r.pc = "ret" /\ r.res = "TooMany" /\ r.full /\ Class(r.m) = "upload"


(***************************************************************************)
(* Claims about cancelled requests on the whole path of a request.         *)
(***************************************************************************)
\* the method of the controller has started with a context that was done
CancelledAtEntry(c) == c.body /\ c.ctxDone

\* C27: an UploadFile, GetFile, ListFiles, GetFileInfo or GetStats of the
\* controller that starts with a context that is done returns ctx.Err()
\* and never calls the repository, so the cache and the directory are as
\* they were when the request came, and once the request is answered the
\* slot it held in the semaphore is free again and the active counter is
\* back.
C27_CancelledAtEntry ==
    \A t \in Threads :
        LET c == th[t] IN
        CancelledAtEntry(c) =>
            /\ c.op = ""
            /\ c.pc \in {"release", "replied", "returned"}
            /\ c.cerr = "context canceled"
            /\ files = c.pre.files
            /\ disk = c.pre.disk
            /\ c.pc = "release" => c.slot # ""
            /\ c.pc \in {"replied", "returned"} =>
                   /\ c.slot = ""
                   /\ uploadSemaphore = 0
                   /\ listSemaphore = 0
                   /\ stats.uploadActive = 0
                   /\ stats.listActive = 0

\* an upload that was admitted and then found its context done has been
\* answered, after an earlier upload had stored a file
C27_Witness ==
    \E t \in Threads :
        /\ Replied(t, "UploadFile")
        /\ CancelledAtEntry(th[t])
        /\ th[t].status = "Internal"
        /\ th[t].filename # "" /\ th[t].data.size > 0
        /\ stats.totalUploads = 2
        /\ DOMAIN files # {}
        /\ DOMAIN disk # {}


(***************************************************************************)
(* Claims about the locks of the repository.                               *)
(***************************************************************************)
\* C31: SaveFile unlocks the mutex in the mode it has locked it in, on the
\* path of the known id, of the failed write and of the insertion: no
\* RUnlock meets a mutex that is locked for writing, a goroutine that has
\* returned from SaveFile holds the mutex in no mode, and with no call
\* under way the mutex is free for the next SaveFile, GetFile, ListFiles,
\* DeleteFile or GetStats.
C31_SavePairsLocks ==
    /\ Alive
    /\ \A t \in Threads : th[t].pc \in {"idle", "done"} => mutex.w # t
    /\ Quiescent => mutex = [w |-> "", r |-> 0]


\* the system calls on the storage directory: os.WriteFile (open, then
\* write), os.ReadFile, os.Remove
IoPcs == {"save_open", "save_write", "get_read", "del_remove"}

\* C32: a goroutine that is in os.WriteFile, os.ReadFile or os.Remove holds
\* the mutex in no mode: SaveFile and GetFile have unlocked it after their
\* lookup, DeleteFile has not locked it yet, and each locks it again only
\* after the system call has returned.  With one client the mutex is then
\* free altogether.
C32_NoIOUnderLock ==
    \A t \in Threads :
        th[t].pc \in IoPcs =>
            /\ mutex.w # t
            /\ world.threads = {t} => mutex = [w |-> "", r |-> 0]

\* GetFile has looked the id up under the read lock, found it, and is in
\* os.ReadFile with the mutex free
C32_Witness ==
    \E t \in Threads :
        /\ world.threads = {t}
        /\ th[t].pc = "get_read"
        /\ th[t].exists
        /\ mutex = [w |-> "", r |-> 0]


(***************************************************************************)
(* Claims about the server: the interceptor and the repository together.   *)
(***************************************************************************)
\* the goroutine t holds r.mutex, as the writer or as a reader
HoldsIndexLock(t) ==
    \/ mutex.w = t
    \/ th[t].pc \in ReadSections \cup {"save_check", "save_runlock"}

\* the goroutine t holds cl.stats.mutex
HoldsStatsLock(t) == th[t].statsHeld

\* a request is under way and no goroutine can take a step
Stuck ==
    /\ \E t \in Threads : th[t].pc \notin {"idle", "replied", "turned", "returned"}
    /\ ~ENABLED ServerSteps

\* C33: no goroutine holds cl.stats.mutex and r.mutex together: it holds
\* cl.stats.mutex inside updateUploadStats / updateListStats only, which
\* return before the handler is called and are called again after it has
\* returned; and in no state of the interceptor with the repository a
\* request is under way while no goroutine can take a step.
C33_NoLockHazard ==
    /\ \A t \in Threads :
           /\ ~(HoldsStatsLock(t) /\ HoldsIndexLock(t))
           /\ HoldsStatsLock(t) => th[t].pc \in StatsSections
           /\ HoldsIndexLock(t) => th[t].body /\ th[t].slot # ""
    /\ statsLocked <=> \E t \in Threads : HoldsStatsLock(t)
    /\ ~Stuck

\* one goroutine holds cl.stats.mutex while the other one holds r.mutex as
\* the writer, and a third lock is waited for by nobody
C33_Witness ==
    \E t, u \in Threads :
        /\ t # u
        /\ HoldsStatsLock(t)
        /\ th[t].pc = "dec_active"
        /\ mutex.w = u
        /\ th[u].pc = "save_insert"


(***************************************************************************)
(* Claims about the classes of the operations.                             *)
(***************************************************************************)
\* C34: the interceptor gates a request by the pool of the transfers if and
\* only if it is an UploadFile or a GetFile, by the pool of the listings if
\* and only if it is a ListFiles, and passes every other operation
\* (GetFileInfo, DeleteFile, GetStats) on without a slot, whatever the
\* request carries and whoever sends it.
C34_ClassByName ==
    \A r \in InFlight :
        /\ Gate(r.m) = Class(r.m)
        /\ r.adm => Class(r.m) \in Pools


(***************************************************************************)
(* Claims about the requests the interceptor turns away.                   *)
(***************************************************************************)
\* the positions of a goroutine inside the interceptor's own code, and
\* outside any request
InterceptorPcs == {"Interceptor", "inc_lock", "inc_active", "inc_total", "inc_unlock",
                   "release", "dec_lock", "dec_active", "dec_unlock"}
OutsidePcs == {"idle", "replied", "turned", "returned"}

\* the goroutine t is in handler(ctx, req)
InHandler(t) == th[t].pc \notin InterceptorPcs \cup OutsidePcs

\* a handler runs with a slot of the pool of its method, and a request that
\* was turned away has not run its handler
C35_SlotAroundHandler ==
    \A t \in Threads :
        /\ InHandler(t) =>
               /\ th[t].slot = Gate("/FileService/" \o th[t].rpc)
               /\ th[t].slot \in Pools
               /\ PoolLen(th[t].slot) >= 1
        /\ th[t].pc = "turned" =>
               /\ th[t].status \in {"TooMany", "Cancelled"}
               /\ ~th[t].body
               /\ th[t].op = ""
               /\ th[t].slot = ""

\* C35: handler(ctx, req) of a gated request runs only between the send on
\* the semaphore of its pool and the deferred receive; the step of the
\* select that ends with the TOO MANY error or with ctx.Err() returns from
\* the interceptor at once, the handler not called, and leaves both
\* semaphores, the four counters, the cache and the directory as they were.
C35_TurnedAway ==
    [][/\ \A t \in Threads :
              th[t].pc = "Interceptor" /\ th'[t].pc \notin {"Interceptor", "inc_lock"} =>
                  /\ th'[t].pc = "turned"
                  /\ UNCHANGED <<uploadSemaphore, listSemaphore, stats, files, disk>>
       /\ C35_SlotAroundHandler']_vars

\* an upload is turned away with the TOO MANY error while ten downloads
\* hold the pool, and nothing was counted or stored for it
C35_Witness ==
    \E t \in Threads :
        /\ th[t].pc = "turned"
        /\ th[t].rpc = "UploadFile"
        /\ th[t].status = "TooMany"
        /\ ~th[t].ctxDone
        /\ uploadSemaphore = UploadLimit
        /\ stats.totalUploads = UploadLimit
        /\ files = Empty


(***************************************************************************)
(* Claims about the counters of the statistics.                            *)
(***************************************************************************)
\* C36: the active counters never exceed the capacities of the pools:
\* uploadActive <= 10 and listActive <= 100 in every state, whatever the
\* order of the sends, the receives and the updates of the counters.
C36_ActiveBounded ==
    /\ stats.uploadActive <= UploadLimit
    /\ stats.listActive <= ListLimit


\* no two goroutines are inside updateUploadStats / updateListStats at once
UpdatesExclusive ==
    /\ Count(Updating) <= 1
    /\ statsLocked <=> Count(Updating) = 1

\* counters in which no admission is half counted
Consistent(st) ==
    /\ 0 <= st.uploadActive /\ st.uploadActive <= st.totalUploads
    /\ 0 <= st.listActive /\ st.listActive <= st.totalLists

\* what GetStats has returned to the ticker: counters read while no update
\* was under way
SnapshotConsistent ==
    /\ th[Ticker].seenUpdating = 0
    /\ Consistent(th[Ticker].seen)

\* the total counters do not go down
TotalsGrow ==
    /\ stats'.totalUploads >= stats.totalUploads
    /\ stats'.totalLists >= stats.totalLists

\* C37: the updates of the counters exclude each other, GetStats never
\* returns counters in which an admission is counted in active and not in
\* total, in every state 0 <= active <= total for both pools, and the total
\* counters never go down.
C37_StatsConsistent ==
    [][/\ UpdatesExclusive'
       /\ SnapshotConsistent'
       /\ Consistent(stats')
       /\ TotalsGrow]_vars

\* C37, in the states a reader can see: the updates of the counters exclude
\* each other, GetStats never returns counters in which an admission is
\* counted in active and not in total, 0 <= active <= total for both pools
\* in every state in which cl.stats.mutex is not locked for writing (inside
\* updateUploadStats / updateListStats active is one ahead of total between
\* the two increments), and the total counters never go down.
C37_StatsConsistentUnlocked ==
    [][/\ UpdatesExclusive'
       /\ SnapshotConsistent'
       /\ ~statsLocked' => Consistent(stats')
       /\ TotalsGrow]_vars

\* the ticker has read the counters while an upload was in its handler and
\* another one waited for the lock of the statistics
C37_Witness ==
    /\ th[Ticker].seen.uploadActive = 1
    /\ th[Ticker].seen.totalUploads = 1
    /\ stats.totalUploads = 2
    /\ \E r \in InFlight : r.pc = "dec_lock"
    /\ \E r \in InFlight : r.pc = "body"


(***************************************************************************)
(* Claims about the methods that only read the cache.                      *)
(***************************************************************************)
ReadOps == {"GetFileInfo", "ListFiles", "GetStats"}

\* the goroutine t takes this step, inside a call of a reading method or
\* into one
ReaderSteps(t) == th'[t] # th[t] /\ th'[t].op \in ReadOps

\* C38: GetFileInfo, ListFiles and GetStats change neither the cache nor
\* the directory, in any of their steps; GetFileInfo finds the record of an
\* id that is in the cache also when the directory has no file of that
\* name, returns it and leaves it in the cache; and the list ListFiles
\* returns is the copy of all the records of the cache as they are at the
\* step of its return.
C38_PureReads ==
    [][\A t \in Threads :
           /\ ReaderSteps(t) => UNCHANGED <<files, disk>>
           /\ ReaderSteps(t) /\ th[t].pc = "info_lookup" /\ th[t].fileID \in DOMAIN files =>
                  /\ th'[t].exists
                  /\ th'[t].fileInfo = files[th[t].fileID]
           /\ ReaderSteps(t) /\ th[t].pc = "info_runlock" /\ th[t].fileID \in DOMAIN files =>
                  /\ th'[t].pc = "done"
                  /\ th'[t].err = ""
                  /\ th'[t].outInfo = files[th[t].fileID]
                  /\ th[t].fileID \in DOMAIN files'
           /\ ReaderSteps(t) /\ th[t].pc = "list_unlock" =>
                  /\ th'[t].pc = "done"
                  /\ th'[t].err = ""
                  /\ th'[t].outList = {files[id] : id \in DOMAIN files}]_vars

\* GetFileInfo has returned the record of a file that DeleteFile of the
\* other client has removed from the directory and not yet from the cache
C38_Witness ==
    \E t, u \in Threads :
        /\ t # u
        /\ Returned(t, "GetFileInfo")
        /\ th[t].err = ""
        /\ th[t].outInfo.ID = th[t].fileID
        /\ th[t].fileID \in DOMAIN files
        /\ th[t].fileID \notin DOMAIN disk
        /\ th[u].pc = "del_lock"


\* the goroutine t is inside the interceptor or the handler it wraps
InRequest(t) == th[t].pc \notin OutsidePcs

\* no pool holds a slot and no request is under way
Drained ==
    /\ uploadSemaphore = 0
    /\ listSemaphore = 0
    /\ InFlight = {}
    /\ \A t \in Threads : ~InRequest(t) /\ th[t].slot = ""

\* C39: under a fair scheduler and with handlers that return, every request
\* that enters the interceptor leaves it (answered, turned away or
\* cancelled), every slot that is held is given back, and a pool that is
\* full gets a free slot again.
C39_EveryRequestReturns ==
    /\ \A t \in Threads : InRequest(t) ~> ~InRequest(t)
    /\ \A t \in Threads : (th[t].slot # "") ~> (th[t].slot = "")
    /\ (uploadSemaphore = UploadLimit) ~> (uploadSemaphore < UploadLimit)
    /\ <>[]Drained

\* the ten downloads that filled the pool have all left, and a transfer that
\* came while they were leaving was admitted and answered
C39_Witness ==
    /\ world.held = UploadLimit
    /\ Drained
    /\ opsLeft = 0
    /\ stats.totalUploads = UploadLimit + 1
    /\ stats.uploadActive = 0
    /\ \E t \in Threads : th[t].pc = "replied" /\ th[t].body

====
